---- MODULE Spec2Model ----
(***************************************************************************)
(* State-machine model of the drova-dash analytics core:                   *)
(*   - app/pipeline.py      clean_df, build_busy_intervals                 *)
(*   - app/filters.py       apply_sidebar_filters                          *)
(*   - app/aggregations.py  build_rolling_window_metrics,                  *)
(*                          build_station_retention_metrics,               *)
(*                          build_idle_station_metrics,                    *)
(*                          build_demand_heatmap,                          *)
(*                          build_concentration_metrics,                   *)
(*                          build_volatility_metrics,                      *)
(*                          build_utilization_metrics,                     *)
(*                          build_product_share_wow_mom,                   *)
(*                          build_product_adoption,                        *)
(*                          build_free_trial_impact,                       *)
(*                          build_product_cannibalization                  *)
(* Each function has its own specification (SpecIntervals, SpecRolling,    *)
(* SpecRetention, SpecIdle, SpecHeatmap, ...); the variables of the other  *)
(* functions stay at their rest values. SpecOrder runs clean_df before     *)
(* build_busy_intervals, SpecPair runs two invocations of                  *)
(* build_rolling_window_metrics side by side, and SpecRatios, SpecWindows, *)
(* SpecBounds and SpecNullDuration call one of several builders.           *)
(***************************************************************************)
EXTENDS Integers, Sequences, FiniteSets, TLC

VARIABLES
    \* ---- build_busy_intervals (app/pipeline.py) ----
    df,               \* the event table handed to build_busy_intervals
    pc,               \* "raw" | "load" | "scan" | "done"
    gi,               \* index of the uuid group being iterated
    ri,               \* index of the next row inside that group
    current_product,  \* local current_product
    start_ts,         \* local start_ts
    records,          \* local records (list of emitted intervals)
    out,              \* the returned, sorted interval table
    \* ---- build_rolling_window_metrics (app/aggregations.py) ----
    rw_in,            \* arguments: rows, window_days, range_start, range_end
    rw_pc,            \* "rest" | "start" | "loop" | "done" | "raised"
    rw_dates,         \* local full_dates
    rw_i,             \* position of the for loop in full_dates
    station_presence, \* local station_presence (reference-count map)
    rolling_active_counts, \* local rolling_active_counts
    rw_out,           \* the returned table
    \* ---- build_station_retention_metrics (app/aggregations.py) ----
    ret_in,           \* argument filtered: set of (date, uuid) rows
    ret_pc,           \* "rest" | "start" | "loop" | "done"
    ret_w,            \* index into the window list [7, 30]
    ret_rows,         \* local rows
    \* ---- build_idle_station_metrics (app/aggregations.py) ----
    idle_in,          \* arguments: filtered uuids, station_scope rows
    idle_pc,          \* "rest" | "start" | "done"
    idle_summary,     \* the returned summary dictionary
    idle_city,        \* the returned city_df
    \* ---- build_demand_heatmap (app/aggregations.py) ----
    hm_in,            \* argument filtered: sequence of (started_at, duration_sec) rows
    hm_pc,            \* "rest" | "start" | "done"
    hm_out,           \* the returned table
    \* ---- build_concentration_metrics (app/aggregations.py) ----
    con_in,           \* argument filtered
    con_pc,           \* "rest" | "start" | "done"
    con_out,          \* the returned summary and tables
    \* ---- build_volatility_metrics (app/aggregations.py) ----
    vol_in,           \* argument filtered
    vol_pc,           \* "rest" | "start" | "done"
    vol_out,          \* the returned summary and tables
    \* ---- build_utilization_metrics (app/aggregations.py) ----
    ut_in,            \* arguments: filtered, station_scope, selected_start, selected_end
    ut_pc,            \* "rest" | "start" | "done"
    ut_out,           \* the returned summary and table
    \* ---- build_product_share_wow_mom (app/aggregations.py) ----
    sh_in,            \* argument filtered
    sh_pc,            \* "rest" | "start" | "done"
    sh_out,           \* the returned table
    \* ---- build_product_adoption (app/aggregations.py) ----
    ad_in,            \* argument filtered
    ad_pc,            \* "rest" | "start" | "done"
    ad_out,           \* the returned table
    \* ---- build_free_trial_impact (app/aggregations.py) ----
    ft_in,            \* argument filtered
    ft_pc,            \* "rest" | "start" | "done"
    ft_out,           \* the returned summary and table
    \* ---- build_product_cannibalization (app/aggregations.py) ----
    cn_in,            \* arguments: filtered, lookback_days
    cn_pc,            \* "rest" | "start" | "done"
    cn_out,           \* the returned shift and pair tables
    \* ---- clean_df (app/pipeline.py) ----
    raw,              \* the raw table handed to clean_df
    \* ---- apply_sidebar_filters (app/filters.py) ----
    sf_in,            \* arguments: intervals_with_duration and the sidebar controls
    sf_pc,            \* "rest" | "start" | "done"
    sf_out,           \* the returned table
    \* ---- a second invocation of build_rolling_window_metrics ----
    rw2_in,           \* its arguments
    rw2_pc,           \* "rest" | "start" | "loop" | "done"
    rw2_dates,        \* its local full_dates
    rw2_i,            \* position of its for loop
    station_presence2, \* its local station_presence
    rolling_active_counts2, \* its local rolling_active_counts
    rw2_out           \* the table it returns

busyVars == <<df, pc, gi, ri, current_product, start_ts, records, out>>
rwVars == <<rw_in, rw_pc, rw_dates, rw_i, station_presence, rolling_active_counts, rw_out>>
retVars == <<ret_in, ret_pc, ret_w, ret_rows>>
idleVars == <<idle_in, idle_pc, idle_summary, idle_city>>
hmVars == <<hm_in, hm_pc, hm_out>>
conVars == <<con_in, con_pc, con_out>>
volVars == <<vol_in, vol_pc, vol_out>>
utVars == <<ut_in, ut_pc, ut_out>>
shVars == <<sh_in, sh_pc, sh_out>>
adVars == <<ad_in, ad_pc, ad_out>>
ftVars == <<ft_in, ft_pc, ft_out>>
cnVars == <<cn_in, cn_pc, cn_out>>
\* the four functions modelled step by step
coreVars == <<busyVars, rwVars, retVars, idleVars>>
\* the single-table metric builders
rawVars == <<raw>>
sfVars == <<sf_in, sf_pc, sf_out>>
rw2Vars == <<rw2_in, rw2_pc, rw2_dates, rw2_i, station_presence2, rolling_active_counts2, rw2_out>>
\* the cleaning step, the sidebar filter and the second rolling invocation
extVars == <<rawVars, sfVars, rw2Vars>>
aggVars == <<hmVars, conVars, volVars, utVars, shVars, adVars, ftVars, cnVars, extVars>>
vars == <<coreVars, aggVars>>

(***************************************************************************)
(* Python values                                                           *)
(***************************************************************************)
\* Python None (a NULL of an object column)
None == "None"
\* float NaN (a NULL of a numeric column)
NaN == "NaN"
\* pd.NaT / an absent timestamp
NaT == -1
\* float NaN in the duration_sec column (durations are never negative)
NaNSec == -1

\* pd.notna(x)
NotNa(x) == x \notin {None, NaN}

\* a != b of Python: NaN differs from everything, itself included
PyNe(a, b) == IF a = NaN \/ b = NaN THEN TRUE ELSE a # b

\* str(x).upper() on the state strings that occur
Upper(s) ==
    CASE s = "busy" -> "BUSY"
      [] s = "idle" -> "IDLE"
      [] OTHER -> s

Max2(a, b) == IF a >= b THEN a ELSE b

(***************************************************************************)
(* build_busy_intervals                                                    *)
(***************************************************************************)
\* longest event table explored
MaxEvents == 3

Stations == {"s1", "s2"}
Products == {"P1", "P2"}

\* the (new_state, new_product_id) pairs an event row may carry
EventKinds ==
    { <<"BUSY", "P1">>, <<"BUSY", "P2">>, <<"BUSY", NaN>>, <<"BUSY", None>>,
      <<"busy", "P1">>, <<"IDLE", None>> }

\* time between two consecutive events of one station (0: same timestamp)
Gaps == {0, 1}

\* order of the uuid strings under sort_values
StationRank(u) == IF u = "s1" THEN 1 ELSE 2

\* changed_at of the latest row of station u in d (0 when there is none)
RECURSIVE LastTs(_, _)
LastTs(d, u) ==
    IF d = <<>> THEN 0
    ELSE IF d[Len(d)].uuid = u THEN d[Len(d)].changed_at
    ELSE LastTs(SubSeq(d, 1, Len(d) - 1), u)

\* df.groupby("uuid", sort=False): the keys in order of first appearance
RECURSIVE GroupKeys(_)
GroupKeys(d) ==
    IF d = <<>> THEN <<>>
    ELSE LET k == GroupKeys(SubSeq(d, 1, Len(d) - 1))
             u == d[Len(d)].uuid
         IN  IF \E i \in 1..Len(k) : k[i] = u THEN k ELSE Append(k, u)

\* the rows of one group, in table order
GroupRows(d, u) == SelectSeq(d, LAMBDA r : r.uuid = u)

Interval(u, p, s, e) == [uuid |-> u, product_id |-> p, started_at |-> s, ended_at |-> e]

\* faulty variant of RowEffect: a product change closes the interval but keeps the old start
RowEffectKeepStart(cur, start, u, row) ==
    LET new_state == Upper(row.new_state)
        new_prod == row.new_product_id
        ts == row.changed_at
    IN  IF cur = None
        THEN IF new_state = "BUSY" /\ NotNa(new_prod)
             THEN [product |-> new_prod, start |-> ts, emit |-> <<>>]
             ELSE [product |-> cur, start |-> start, emit |-> <<>>]
        ELSE IF new_state = "BUSY"
             THEN IF PyNe(new_prod, cur)
                  THEN [product |-> new_prod, start |-> start,
                        emit |-> <<Interval(u, cur, start, ts)>>]
                  ELSE [product |-> cur, start |-> start, emit |-> <<>>]
             ELSE [product |-> None, start |-> NaT,
                   emit |-> <<Interval(u, cur, start, ts)>>]

\* faulty variant of RowEffect: a non-BUSY event closes the interval but leaves the station BUSY
RowEffectStayBusy(cur, start, u, row) ==
    LET new_state == Upper(row.new_state)
        new_prod == row.new_product_id
        ts == row.changed_at
    IN  IF cur = None
        THEN IF new_state = "BUSY" /\ NotNa(new_prod)
             THEN [product |-> new_prod, start |-> ts, emit |-> <<>>]
             ELSE [product |-> cur, start |-> start, emit |-> <<>>]
        ELSE IF new_state = "BUSY"
             THEN IF PyNe(new_prod, cur)
                  THEN [product |-> new_prod, start |-> ts,
                        emit |-> <<Interval(u, cur, start, ts)>>]
                  ELSE [product |-> cur, start |-> start, emit |-> <<>>]
             ELSE [product |-> cur, start |-> ts,
                   emit |-> <<Interval(u, cur, start, ts)>>]

\* faulty variant of RowEffect: an IDLE station opens on any BUSY event, product or not
RowEffectOpenAlways(cur, start, u, row) ==
    LET new_state == Upper(row.new_state)
        new_prod == row.new_product_id
        ts == row.changed_at
    IN  IF cur = None
        THEN IF new_state = "BUSY"
             THEN [product |-> new_prod, start |-> ts, emit |-> <<>>]
             ELSE [product |-> cur, start |-> start, emit |-> <<>>]
        ELSE IF new_state = "BUSY"
             THEN IF PyNe(new_prod, cur)
                  THEN [product |-> new_prod, start |-> ts,
                        emit |-> <<Interval(u, cur, start, ts)>>]
                  ELSE [product |-> cur, start |-> start, emit |-> <<>>]
             ELSE [product |-> None, start |-> NaT,
                   emit |-> <<Interval(u, cur, start, ts)>>]

\* faulty variant of RowEffect: every BUSY event while BUSY splits the interval
RowEffectSplitAlways(cur, start, u, row) ==
    LET new_state == Upper(row.new_state)
        new_prod == row.new_product_id
        ts == row.changed_at
    IN  IF cur = None
        THEN IF new_state = "BUSY" /\ NotNa(new_prod)
             THEN [product |-> new_prod, start |-> ts, emit |-> <<>>]
             ELSE [product |-> cur, start |-> start, emit |-> <<>>]
        ELSE IF new_state = "BUSY"
             THEN [product |-> new_prod, start |-> ts,
                   emit |-> <<Interval(u, cur, start, ts)>>]
             ELSE [product |-> None, start |-> NaT,
                   emit |-> <<Interval(u, cur, start, ts)>>]

\* faulty variant of RowEffect: a product change closes the interval and leaves the station IDLE
RowEffectSplitToIdle(cur, start, u, row) ==
    LET new_state == Upper(row.new_state)
        new_prod == row.new_product_id
        ts == row.changed_at
    IN  IF cur = None
        THEN IF new_state = "BUSY" /\ NotNa(new_prod)
             THEN [product |-> new_prod, start |-> ts, emit |-> <<>>]
             ELSE [product |-> cur, start |-> start, emit |-> <<>>]
        ELSE IF new_state = "BUSY" /\ ~PyNe(new_prod, cur)
             THEN [product |-> cur, start |-> start, emit |-> <<>>]
             ELSE [product |-> None, start |-> NaT,
                   emit |-> <<Interval(u, cur, start, ts)>>]

\* the body of the row loop: the new current_product and start_ts and the
\* records appended, for one row of station u
RowEffect(cur, start, u, row) ==
    LET new_state == Upper(row.new_state)
        new_prod == row.new_product_id
        ts == row.changed_at
    IN  IF cur = None
        THEN IF new_state = "BUSY" /\ NotNa(new_prod)
             THEN [product |-> new_prod, start |-> ts, emit |-> <<>>]
             ELSE [product |-> cur, start |-> start, emit |-> <<>>]
        ELSE IF new_state = "BUSY"
             THEN IF PyNe(new_prod, cur)
                  THEN [product |-> new_prod, start |-> ts,
                        emit |-> <<Interval(u, cur, start, ts)>>]
                  ELSE [product |-> cur, start |-> start, emit |-> <<>>]
             ELSE [product |-> None, start |-> NaT,
                   emit |-> <<Interval(u, cur, start, ts)>>]

\* faulty variant of GroupEnd: an open interval is emitted for an IDLE station too
GroupEndAlways(cur, start, u) == <<Interval(u, cur, start, NaT)>>

\* faulty variant of GroupEnd: the open interval of a BUSY station is not emitted
GroupEndDropOpen(cur, start, u) == <<>>

\* after the row loop of one group: the open interval of a station still BUSY
GroupEnd(cur, start, u) ==
    IF cur # None THEN <<Interval(u, cur, start, NaT)>> ELSE <<>>

\* r1 sorts strictly before r2 under sort_values(["uuid", "started_at"])
RecordBefore(r1, r2) ==
    \/ StationRank(r1.uuid) < StationRank(r2.uuid)
    \/ /\ r1.uuid = r2.uuid
       /\ r1.started_at < r2.started_at

\* insert r behind every record that does not sort after it (stable)
RECURSIVE InsertRecord(_, _)
InsertRecord(s, r) ==
    IF s = <<>> THEN <<r>>
    ELSE IF RecordBefore(r, s[Len(s)])
         THEN Append(InsertRecord(SubSeq(s, 1, Len(s) - 1), r), s[Len(s)])
         ELSE Append(s, r)

\* .sort_values(["uuid", "started_at"]).reset_index(drop=True)
RECURSIVE SortRecords(_)
SortRecords(s) ==
    IF s = <<>> THEN <<>>
    ELSE InsertRecord(SortRecords(SubSeq(s, 1, Len(s) - 1)), s[Len(s)])

Keys == GroupKeys(df)
CurUuid == Keys[gi]
CurGroup == GroupRows(df, CurUuid)

BusyRest ==
    /\ df = <<>>
    /\ pc = "load"
    /\ gi = 1
    /\ ri = 1
    /\ current_product = None
    /\ start_ts = NaT
    /\ records = <<>>
    /\ out = <<>>

\* one more row of the event table: chronological within its station
AppendRow ==
    /\ pc = "load"
    /\ Len(df) < MaxEvents
    /\ \E u \in Stations, k \in EventKinds, g \in Gaps :
          df' = Append(df, [uuid |-> u, new_state |-> k[1], new_product_id |-> k[2],
                            changed_at |-> LastTs(df, u) + g])
    /\ UNCHANGED <<pc, gi, ri, current_product, start_ts, records, out>>
    /\ UNCHANGED <<rwVars, retVars, idleVars, aggVars>>

\* entry of build_busy_intervals
StartBuild ==
    /\ pc = "load"
    /\ pc' = "scan"
    /\ gi' = 1
    /\ ri' = 1
    /\ current_product' = None
    /\ start_ts' = NaT
    /\ records' = <<>>
    /\ UNCHANGED <<df, out>>
    /\ UNCHANGED <<rwVars, retVars, idleVars, aggVars>>

\* one iteration of the row loop
ProcessRow ==
    /\ pc = "scan"
    /\ gi <= Len(Keys)
    /\ ri <= Len(CurGroup)
    /\ LET e == RowEffect(current_product, start_ts, CurUuid, CurGroup[ri])
       IN  /\ current_product' = e.product
           /\ start_ts' = e.start
           /\ records' = records \o e.emit
    /\ ri' = ri + 1
    /\ UNCHANGED <<df, pc, gi, out>>
    /\ UNCHANGED <<rwVars, retVars, idleVars, aggVars>>

\* the row loop of a group is over: open interval, then the next group
EndGroup ==
    /\ pc = "scan"
    /\ gi <= Len(Keys)
    /\ ri > Len(CurGroup)
    /\ records' = records \o GroupEnd(current_product, start_ts, CurUuid)
    /\ gi' = gi + 1
    /\ ri' = 1
    /\ IF gi < Len(Keys)
       THEN current_product' = None /\ start_ts' = NaT
       ELSE UNCHANGED <<current_product, start_ts>>
    /\ UNCHANGED <<df, pc, out>>
    /\ UNCHANGED <<rwVars, retVars, idleVars, aggVars>>

\* all groups done: sort and return
FinishBuild ==
    /\ pc = "scan"
    /\ gi > Len(Keys)
    /\ out' = SortRecords(records)
    /\ pc' = "done"
    /\ UNCHANGED <<df, gi, ri, current_product, start_ts, records>>
    /\ UNCHANGED <<rwVars, retVars, idleVars, aggVars>>


(***************************************************************************)
(* clean_df                                                                *)
(***************************************************************************)
\* longest raw table explored
MaxRaw == 3

\* a changed_at text that does not parse as a timestamp
BadDate == -2

\* a row of station_changes as load_station_changes selects it
RawRow(u, st, p, ts, op) ==
    [uuid |-> u, old_state |-> "IDLE", new_state |-> st,
     old_product_id |-> op, new_product_id |-> p, changed_at |-> ts]

\* the raw rows explored: complete rows, and rows that miss a value
RawRowUniverse ==
    { RawRow(u, k[1], k[2], ts, "P0") :
        u \in Stations, k \in {<<"BUSY", "P1">>, <<"BUSY", "P2">>, <<"IDLE", "P1">>},
        ts \in {0, 1} }
    \cup { RawRow("s1", "IDLE", None, 1, "P0"),
           RawRow("s1", "BUSY", "P1", BadDate, "P0"),
           RawRow("s2", "BUSY", "P2", 0, None) }

\* pd.to_datetime(x, errors="coerce")
ToDatetime(x) == IF x = BadDate THEN NaT ELSE x

\* some column of the row is NA
HasNa(r) ==
    \/ ~NotNa(r.uuid)
    \/ ~NotNa(r.old_state)
    \/ ~NotNa(r.new_state)
    \/ ~NotNa(r.old_product_id)
    \/ ~NotNa(r.new_product_id)
    \/ r.changed_at = NaT

\* faulty variant of EventBefore: the id does not break ties
EventBeforeNoId(r1, r2) ==
    \/ StationRank(r1.uuid) < StationRank(r2.uuid)
    \/ /\ r1.uuid = r2.uuid
       /\ r1.changed_at < r2.changed_at

\* r1 sorts strictly before r2 under sort_values(["uuid", "changed_at", "id"])
EventBefore(r1, r2) ==
    \/ StationRank(r1.uuid) < StationRank(r2.uuid)
    \/ /\ r1.uuid = r2.uuid
       /\ r1.changed_at < r2.changed_at
    \/ /\ r1.uuid = r2.uuid
       /\ r1.changed_at = r2.changed_at
       /\ r1.id < r2.id

\* insert r behind every row that does not sort after it (stable)
RECURSIVE InsertEvent(_, _)
InsertEvent(s, r) ==
    IF s = <<>> THEN <<r>>
    ELSE IF EventBefore(r, s[Len(s)])
         THEN Append(InsertEvent(SubSeq(s, 1, Len(s) - 1), r), s[Len(s)])
         ELSE Append(s, r)

\* .sort_values(["uuid", "changed_at", "id"]).reset_index(drop=True)
RECURSIVE SortEvents(_)
SortEvents(s) ==
    IF s = <<>> THEN <<>>
    ELSE InsertEvent(SortEvents(SubSeq(s, 1, Len(s) - 1)), s[Len(s)])

\* clean_df: coerce changed_at, drop the rows with any NA, sort
clean_df(t) ==
    LET coerced == [i \in 1..Len(t) |-> [t[i] EXCEPT !.changed_at = ToDatetime(@)]]
    IN  SortEvents(SelectSeq(coerced, LAMBDA r : ~HasNa(r)))

\* the raw table is still being read
RawInit ==
    /\ raw = <<>>
    /\ df = <<>>
    /\ pc = "raw"
    /\ gi = 1
    /\ ri = 1
    /\ current_product = None
    /\ start_ts = NaT
    /\ records = <<>>
    /\ out = <<>>

RawRest == raw = <<>>

\* one more row of station_changes, in any order of time and station; the id
\* is the row's position in the table
AppendRaw ==
    /\ pc = "raw"
    /\ Len(raw) < MaxRaw
    /\ \E r \in RawRowUniverse :
          raw' = Append(raw, [id |-> Len(raw) + 1, uuid |-> r.uuid,
                              old_state |-> r.old_state, new_state |-> r.new_state,
                              old_product_id |-> r.old_product_id,
                              new_product_id |-> r.new_product_id,
                              changed_at |-> r.changed_at])
    /\ UNCHANGED busyVars
    /\ UNCHANGED <<rwVars, retVars, idleVars>>
    /\ UNCHANGED <<hmVars, conVars, volVars, utVars, shVars, adVars, ftVars, cnVars>>
    /\ UNCHANGED <<sfVars, rw2Vars>>

\* the call of clean_df; its result is handed to build_busy_intervals
CallCleanDf ==
    /\ pc = "raw"
    /\ df' = clean_df(raw)
    /\ pc' = "load"
    /\ UNCHANGED <<raw, gi, ri, current_product, start_ts, records, out>>
    /\ UNCHANGED <<rwVars, retVars, idleVars>>
    /\ UNCHANGED <<hmVars, conVars, volVars, utVars, shVars, adVars, ftVars, cnVars>>
    /\ UNCHANGED <<sfVars, rw2Vars>>

\* the state of the row loop after the rows g of station u
RECURSIVE GroupScan(_, _)
GroupScan(g, u) ==
    IF g = <<>> THEN [product |-> None, start |-> NaT, recs |-> <<>>]
    ELSE LET p == GroupScan(SubSeq(g, 1, Len(g) - 1), u)
             e == RowEffect(p.product, p.start, u, g[Len(g)])
         IN  [product |-> e.product, start |-> e.start, recs |-> p.recs \o e.emit]

\* the records of the groups k, in that order
RECURSIVE GroupRecords(_, _)
GroupRecords(d, k) ==
    IF k = <<>> THEN <<>>
    ELSE LET u == k[Len(k)]
             s == GroupScan(GroupRows(d, u), u)
         IN  GroupRecords(d, SubSeq(k, 1, Len(k) - 1))
                 \o s.recs \o GroupEnd(s.product, s.start, u)

\* build_busy_intervals as a function of its argument
build_busy_intervals(d) == SortRecords(GroupRecords(d, GroupKeys(d)))

(***************************************************************************)
(* Claims about build_busy_intervals                                       *)
(***************************************************************************)
\* the intervals of station u in table t, in table order
StationIntervals(t, u) == SelectSeq(t, LAMBDA r : r.uuid = u)

\* number of open intervals of station u in table t
OpenCount(t, u) == Len(SelectSeq(t, LAMBDA r : r.uuid = u /\ r.ended_at = NaT))

\* the step just taken processed row Row of the current group
RowStep == pc = "scan" /\ pc' = "scan" /\ gi' = gi /\ ri' = ri + 1
Row == CurGroup[ri]
RowIsBusy == Upper(Row.new_state) = "BUSY"

\* the step just taken closed the row loop of the current group
EndStep == pc = "scan" /\ pc' = "scan" /\ gi' = gi + 1

\* the row processed last, and the one before it (for witnesses)
LastRow == CurGroup[ri - 1]
LastButOneRow == CurGroup[ri - 2]

\* C1: in the returned table the intervals of every station are ordered by
\* start, each interval ends no later than the next one starts (half-open
\* intervals do not overlap), and only the last interval of a station may be
\* open. The event table is chronological per station by construction.
C1_NonOverlappingOrdered ==
    pc = "done" =>
        \A u \in Stations :
            LET s == StationIntervals(out, u)
            IN  /\ \A i \in 1..Len(s), j \in 1..Len(s) :
                      i < j => /\ s[i].started_at <= s[j].started_at
                               /\ s[i].ended_at # NaT
                               /\ s[i].started_at <= s[i].ended_at
                               /\ s[i].ended_at <= s[j].started_at
                /\ OpenCount(out, u) <= 1
                /\ OpenCount(out, u) = 1 => s[Len(s)].ended_at = NaT

\* C1 witness: a station with a closed interval followed by an open one
C1_Witness ==
    /\ pc = "done"
    /\ \E u \in Stations :
          LET s == StationIntervals(out, u)
          IN  /\ Len(s) >= 2
              /\ s[1].ended_at # NaT
              /\ s[1].started_at < s[1].ended_at
              /\ s[Len(s)].ended_at = NaT

\* C2: BUSY(p) + BUSY event with a product q # p: the interval (p, start,
\* changed_at) is appended, and the station is BUSY(q) with start changed_at.
C2_SplitBackToBack ==
    [][ ( /\ RowStep
          /\ current_product \in Products
          /\ RowIsBusy
          /\ Row.new_product_id \in Products
          /\ Row.new_product_id # current_product )
        => ( /\ records' = Append(records, Interval(CurUuid, current_product,
                                                    start_ts, Row.changed_at))
             /\ current_product' = Row.new_product_id
             /\ start_ts' = Row.changed_at ) ]_vars

\* C2 witness: the last record ends exactly where the pending interval of
\* another product starts, after a BUSY row that changed the product
C2_Witness ==
    /\ pc = "scan" /\ gi <= Len(Keys) /\ ri > 2
    /\ Upper(LastRow.new_state) = "BUSY"
    /\ LastRow.new_product_id \in Products
    /\ current_product = LastRow.new_product_id
    /\ start_ts = LastRow.changed_at
    /\ records # <<>>
    /\ LET r == records[Len(records)]
       IN  /\ r.uuid = CurUuid
           /\ r.product_id \in Products
           /\ r.product_id # current_product
           /\ r.started_at < r.ended_at
           /\ r.ended_at = start_ts

\* C3: BUSY(p) + event that is not BUSY: exactly one closed interval
\* (p, start, changed_at) is appended; the station is IDLE, no pending start.
C3_LeaveBusyCloses ==
    [][ ( /\ RowStep
          /\ current_product # None
          /\ ~RowIsBusy )
        => ( /\ records' = Append(records, Interval(CurUuid, current_product,
                                                    start_ts, Row.changed_at))
             /\ Row.changed_at # NaT
             /\ current_product' = None
             /\ start_ts' = NaT ) ]_vars

\* C3 witness: after a non-BUSY row the station is IDLE and the last record
\* is the interval that row closed
C3_Witness ==
    /\ pc = "scan" /\ gi <= Len(Keys) /\ ri > 2
    /\ Upper(LastRow.new_state) # "BUSY"
    /\ current_product = None
    /\ start_ts = NaT
    /\ records # <<>>
    /\ LET r == records[Len(records)]
       IN  /\ r.uuid = CurUuid
           /\ r.product_id \in Products
           /\ r.started_at = LastButOneRow.changed_at
           /\ r.ended_at = LastRow.changed_at

\* C4: at the end of a station's rows, a station that is BUSY(p) gets exactly
\* one open interval (p, start, NaT), and an IDLE station gets none.
C4_OpenAtEnd ==
    [][ EndStep =>
          IF current_product # None
          THEN /\ records' = Append(records, Interval(CurUuid, current_product,
                                                      start_ts, NaT))
               /\ OpenCount(records', CurUuid) = 1
          ELSE /\ records' = records
               /\ OpenCount(records', CurUuid) = 0 ]_vars

\* C4 witness: a returned table with one station left open and one left IDLE
C4_Witness ==
    /\ pc = "done"
    /\ \E u \in Stations, v \in Stations :
          /\ u # v
          /\ GroupRows(df, u) # <<>>
          /\ GroupRows(df, v) # <<>>
          /\ OpenCount(out, u) = 1
          /\ OpenCount(out, v) = 0
          /\ StationIntervals(out, v) # <<>>

\* C5: IDLE + BUSY event without a product changes nothing; an IDLE station
\* becomes BUSY only on a BUSY event that carries a product, and an IDLE
\* station never emits.
C5_IdleIgnoresMissingProduct ==
    [][ ( RowStep /\ current_product = None )
        => ( /\ (RowIsBusy /\ ~NotNa(Row.new_product_id))
                    => UNCHANGED <<current_product, start_ts, records>>
             /\ current_product' # None
                    => (RowIsBusy /\ NotNa(Row.new_product_id))
             /\ (RowIsBusy /\ NotNa(Row.new_product_id))
                    => (current_product' = Row.new_product_id
                        /\ start_ts' = Row.changed_at)
             /\ records' = records ) ]_vars

\* C5 witness: the first row of a station was a BUSY without product and the
\* station is still IDLE with nothing emitted for it
C5_Witness ==
    /\ pc = "scan" /\ gi <= Len(Keys) /\ ri = 2
    /\ Upper(LastRow.new_state) = "BUSY"
    /\ ~NotNa(LastRow.new_product_id)
    /\ current_product = None
    /\ start_ts = NaT
    /\ StationIntervals(records, CurUuid) = <<>>

\* C6: BUSY(p) + BUSY event with the same product p leaves current_product,
\* start_ts and records as they were.
C6_SameProductNoOp ==
    [][ ( /\ RowStep
          /\ current_product \in Products
          /\ RowIsBusy
          /\ Row.new_product_id = current_product )
        => UNCHANGED <<current_product, start_ts, records>> ]_vars

\* C6 witness: two BUSY rows with the same product, the second one later;
\* the pending start is still that of the first and nothing was emitted
C6_Witness ==
    /\ pc = "scan" /\ gi <= Len(Keys) /\ ri = 3
    /\ Upper(LastButOneRow.new_state) = "BUSY"
    /\ Upper(LastRow.new_state) = "BUSY"
    /\ LastButOneRow.new_product_id \in Products
    /\ LastRow.new_product_id = LastButOneRow.new_product_id
    /\ LastRow.changed_at > LastButOneRow.changed_at
    /\ current_product = LastRow.new_product_id
    /\ start_ts = LastButOneRow.changed_at
    /\ StationIntervals(records, CurUuid) = <<>>

\* C27 (as stated): no interval of the returned table has a missing
\* product_id, whatever the event sequence.
C27_NoMissingProduct ==
    pc = "done" => \A k \in 1..Len(out) : NotNa(out[k].product_id)

\* the positions in the rows of station u of the events whose state is BUSY
BusyEvents(u) ==
    {i \in 1..Len(GroupRows(df, u)) : Upper(GroupRows(df, u)[i].new_state) = "BUSY"}

\* C29: every returned interval starts at the changed_at of a BUSY event of
\* its station that carries its product; a closed interval ends at the
\* changed_at of a later event of that station, not before its start; a
\* station has no more intervals than BUSY events.
C29_IntervalsComeFromEvents ==
    pc = "done" =>
        \A u \in Stations :
            LET g == GroupRows(df, u)
                s == StationIntervals(out, u)
            IN  /\ Len(s) <= Cardinality(BusyEvents(u))
                /\ \A k \in 1..Len(s) :
                      \E i \in BusyEvents(u) :
                          /\ g[i].new_product_id = s[k].product_id
                          /\ g[i].changed_at = s[k].started_at
                          /\ s[k].ended_at # NaT =>
                                /\ s[k].ended_at >= s[k].started_at
                                /\ \E j \in (i + 1)..Len(g) : g[j].changed_at = s[k].ended_at

\* C29 witness: one station with three events and two intervals, the first
\* closed by the BUSY event that opens the second, the second closed later
C29_Witness ==
    /\ pc = "done"
    /\ \E u \in Stations :
          LET g == GroupRows(df, u)
              s == StationIntervals(out, u)
          IN  /\ Len(g) = 3 /\ Len(s) = 2
              /\ Cardinality(BusyEvents(u)) = 2
              /\ s[1].started_at = g[1].changed_at
              /\ s[1].ended_at = g[2].changed_at
              /\ s[2].started_at = g[2].changed_at
              /\ s[2].ended_at = g[3].changed_at
              /\ s[1].started_at < s[1].ended_at /\ s[2].started_at < s[2].ended_at
              /\ s[1].product_id \in Products /\ s[2].product_id \in Products

\* the orderings of a table of n rows
Orderings(n) == { f \in [1..n -> 1..n] : \A a, b \in 1..n : a # b => f[a] # f[b] }

\* the rows of t in the order f
Reorder(t, f) == [i \in 1..Len(t) |-> t[f[i]]]

\* C23: the interval table clean_df and build_busy_intervals return for a raw
\* table with distinct ids is the one they return for every other ordering of
\* the same rows, and the intervals of each station in it are those the two
\* return for the rows of that station alone.
C23_IntervalsIgnoreRowOrder ==
    (pc = "done" /\ df = clean_df(raw))
        => /\ \A f \in Orderings(Len(raw)) :
                 build_busy_intervals(clean_df(Reorder(raw, f))) = out
           /\ \A u \in Stations :
                 StationIntervals(out, u)
                     = build_busy_intervals(clean_df(GroupRows(raw, u)))

\* C23 witness: three raw rows, the stations interleaved and out of order,
\* two rows of one station at the same time; the table holds the closed
\* interval of the tie and the open intervals of both stations
C23_Witness ==
    /\ pc = "done" /\ df = clean_df(raw)
    /\ Len(raw) = 3
    /\ raw[1].uuid = "s2" /\ raw[2].uuid = "s1" /\ raw[3].uuid = "s2"
    /\ raw[1].changed_at = raw[3].changed_at
    /\ Len(out) = 3
    /\ out[1].uuid = "s1"
    /\ out[2].product_id = raw[1].new_product_id
    /\ out[2].ended_at = raw[3].changed_at
    /\ out[3].product_id = raw[3].new_product_id
    /\ out[3].ended_at = NaT
    /\ StationIntervals(out, "s1") = <<out[1]>>

(***************************************************************************)
(* build_rolling_window_metrics                                            *)
(* Dates are day numbers (started_at already normalized to the day). The   *)
(* table rows carry date and uuid; played_hours_window, which none of the  *)
(* checked properties reads, is left out of the returned rows.             *)
(***************************************************************************)
\* dates of the explored tables are 0..MaxDay
MaxDay == 3
\* window_days ranges over 1..MaxWindow
MaxWindow == 3

RwStations == {"A", "B"}
RwDays == 0..MaxDay

\* rows of filtered: usable ones, and one whose uuid is missing
RwRowUniverse == [date : RwDays, uuid : RwStations] \cup {[date |-> 0, uuid |-> NaN]}

\* a range end may be None
RwRangeEnds == RwDays \cup {NaT}

Filtered == rw_in.filtered
WindowDays == rw_in.window_days
RangeStart == rw_in.range_start
RangeEnd == rw_in.range_end

MinDate(rows) == CHOOSE d \in {r.date : r \in rows} : \A r \in rows : d <= r.date
MaxDate(rows) == CHOOSE d \in {r.date : r \in rows} : \A r \in rows : d >= r.date

\* pd.date_range(a, b, freq="D"): empty when b < a
DateRange(a, b) == IF b < a THEN <<>> ELSE [i \in 1..(b - a + 1) |-> a + i - 1]

\* range_start is not None and range_end is not None
HasRange == RangeStart # NaT /\ RangeEnd # NaT

\* filtered.dropna(subset=["started_at", "uuid", "duration_sec"])
Usable == {r \in Filtered : NotNa(r.uuid)}

\* start, end after "if start > end: start, end = end, start"
SwappedStart == IF RangeStart > RangeEnd THEN RangeEnd ELSE RangeStart
SwappedEnd == IF RangeStart > RangeEnd THEN RangeStart ELSE RangeEnd

\* base as it is from line 819 on
Base ==
    IF HasRange
    THEN {r \in Usable : r.date >= SwappedStart /\ r.date <= SwappedEnd}
    ELSE Usable

\* full_dates: built from the range ends as given, not from start and end
FullDates ==
    IF HasRange
    THEN DateRange(RangeStart, RangeEnd)
    ELSE DateRange(MinDate(Base), MaxDate(Base))

\* station_sets_map.get(d, set())
StationSetsMap(d) == {r.uuid : r \in {x \in Base : x.date = d}}

EmptyMap == [s \in {} |-> 0]

\* station_presence.get(s, 0)
GetCount(sp, s) == IF s \in DOMAIN sp THEN sp[s] ELSE 0

\* first inner loop: count every station active on current_date
AfterAdd(sp, active) ==
    [s \in (DOMAIN sp) \cup active |->
        IF s \in active THEN GetCount(sp, s) + 1 ELSE sp[s]]

\* faulty variant of AfterDrop: a station whose count reaches 0 keeps its entry
AfterDropNoEvict(sp, leaving) ==
    [s \in DOMAIN sp |-> IF s \in leaving THEN sp[s] - 1 ELSE sp[s]]

\* second inner loop: uncount every station active on drop_date, evict at <= 0
AfterDrop(sp, leaving) ==
    [s \in {x \in DOMAIN sp : x \in leaving => GetCount(sp, x) - 1 > 0} |->
        IF s \in leaving THEN sp[s] - 1 ELSE sp[s]]

\* faulty variant of DropDate: the day that leaves is one day too late
DropDateOffByOne(d) == d - (WindowDays - 1)

\* drop_date = current_date - pd.Timedelta(days=window_days)
DropDate(d) == d - WindowDays

\* the body of the for loop over full_dates
LoopBody(sp, d) == AfterDrop(AfterAdd(sp, StationSetsMap(d)), StationSetsMap(DropDate(d)))

\* visible_start of lines 877-885
VisibleStart ==
    LET window_offset == Max2(WindowDays - 1, 0)
        first_window_by_range == rw_dates[1] + window_offset
        first_window_by_data == MinDate(Base) + window_offset
    IN  IF first_window_by_range >= first_window_by_data
        THEN first_window_by_range
        ELSE first_window_by_data

OutRow(d, n) == [date |-> d, active_stations_window |-> n]

\* the table before the trim
Untrimmed == [k \in 1..Len(rw_dates) |-> OutRow(rw_dates[k], rolling_active_counts[k])]

\* the table of the early return of lines 820-828
ZeroTable == LET fd == DateRange(SwappedStart, SwappedEnd)
             IN  [k \in 1..Len(fd) |-> OutRow(fd[k], 0)]

RwRest ==
    /\ rw_in = [filtered |-> {}, window_days |-> 1, range_start |-> NaT, range_end |-> NaT]
    /\ rw_pc = "rest"
    /\ rw_dates = <<>>
    /\ rw_i = 1
    /\ station_presence = EmptyMap
    /\ rolling_active_counts = <<>>
    /\ rw_out = <<>>

\* the call: any table, window and range within the bounds
RwInit ==
    /\ rw_in \in [filtered : SUBSET RwRowUniverse, window_days : 1..MaxWindow,
                  range_start : RwRangeEnds, range_end : RwRangeEnds]
    /\ rw_pc = "start"
    /\ rw_dates = <<>>
    /\ rw_i = 1
    /\ station_presence = EmptyMap
    /\ rolling_active_counts = <<>>
    /\ rw_out = <<>>

\* lines 806-811: nothing usable, the empty table
RwReturnEmpty ==
    /\ rw_pc = "start"
    /\ Usable = {}
    /\ rw_out' = <<>>
    /\ rw_pc' = "done"
    /\ UNCHANGED <<rw_in, rw_dates, rw_i, station_presence, rolling_active_counts>>
    /\ UNCHANGED <<busyVars, retVars, idleVars, aggVars>>

\* lines 814-828: a range without any row in it, zeros for every day of it
RwReturnZeros ==
    /\ rw_pc = "start"
    /\ Usable # {}
    /\ HasRange
    /\ Base = {}
    /\ rw_out' = ZeroTable
    /\ rw_pc' = "done"
    /\ UNCHANGED <<rw_in, rw_dates, rw_i, station_presence, rolling_active_counts>>
    /\ UNCHANGED <<busyVars, retVars, idleVars, aggVars>>

\* lines 830-853: the daily sets, full_dates and the empty reference-count map
RwEnterLoop ==
    /\ rw_pc = "start"
    /\ Base # {}
    /\ rw_dates' = FullDates
    /\ rw_i' = 1
    /\ station_presence' = EmptyMap
    /\ rolling_active_counts' = <<>>
    /\ rw_pc' = "loop"
    /\ UNCHANGED <<rw_in, rw_out>>
    /\ UNCHANGED <<busyVars, retVars, idleVars, aggVars>>

\* lines 855-867: one day of the slide
RwStep ==
    /\ rw_pc = "loop"
    /\ rw_i <= Len(rw_dates)
    /\ station_presence' = LoopBody(station_presence, rw_dates[rw_i])
    /\ rolling_active_counts' =
           Append(rolling_active_counts, Cardinality(DOMAIN station_presence'))
    /\ rw_i' = rw_i + 1
    /\ UNCHANGED <<rw_in, rw_pc, rw_dates, rw_out>>
    /\ UNCHANGED <<busyVars, retVars, idleVars, aggVars>>

\* lines 869-887: the trim of the partial windows and the return
RwReturn ==
    /\ rw_pc = "loop"
    /\ rw_i > Len(rw_dates)
    /\ rw_dates # <<>>
    /\ rw_out' = SelectSeq(Untrimmed, LAMBDA r : r.date >= VisibleStart)
    /\ rw_pc' = "done"
    /\ UNCHANGED <<rw_in, rw_dates, rw_i, station_presence, rolling_active_counts>>
    /\ UNCHANGED <<busyVars, retVars, idleVars, aggVars>>

\* line 878: full_dates[0] of an empty index raises IndexError
RwRaise ==
    /\ rw_pc = "loop"
    /\ rw_i > Len(rw_dates)
    /\ rw_dates = <<>>
    /\ rw_pc' = "raised"
    /\ UNCHANGED <<rw_in, rw_dates, rw_i, station_presence, rolling_active_counts, rw_out>>
    /\ UNCHANGED <<busyVars, retVars, idleVars, aggVars>>

(***************************************************************************)
(* build_rolling_window_metrics as a function of its arguments a, and a    *)
(* second invocation that runs beside the first                            *)
(***************************************************************************)
\* most rows of a table handed to one of two invocations
MaxPairRows == 2

\* the tables of two invocations: days 0..2 of two stations, a missing uuid
PairRowUniverse == [date : {0, 1, 2}, uuid : RwStations] \cup {[date |-> 0, uuid |-> NaN]}

\* no range, a range around the rows, a reversed one, one beside the rows
PairRanges == {<<NaT, NaT>>, <<0, 2>>, <<2, 0>>, <<3, 3>>}

\* arguments of the first invocation
PairArgs ==
    {[filtered |-> f, window_days |-> w, range_start |-> rg[1], range_end |-> rg[2]] :
        f \in {x \in SUBSET PairRowUniverse : Cardinality(x) <= MaxPairRows},
        w \in {1, 2}, rg \in PairRanges}

\* arguments of the second invocation: nothing usable, nothing in the range,
\* a reversed range, and slides of one and two days
SecondArgs ==
    {[filtered |-> {[date |-> 0, uuid |-> NaN]}, window_days |-> 1,
      range_start |-> NaT, range_end |-> NaT],
     [filtered |-> {[date |-> 0, uuid |-> "A"]}, window_days |-> 1,
      range_start |-> 3, range_end |-> 3],
     [filtered |-> {[date |-> 0, uuid |-> "A"]}, window_days |-> 1,
      range_start |-> 2, range_end |-> 0],
     [filtered |-> {[date |-> 0, uuid |-> "A"], [date |-> 1, uuid |-> "B"]},
      window_days |-> 1, range_start |-> NaT, range_end |-> NaT],
     [filtered |-> {[date |-> 0, uuid |-> "B"], [date |-> 2, uuid |-> "B"]},
      window_days |-> 2, range_start |-> NaT, range_end |-> NaT],
     [filtered |-> {[date |-> 0, uuid |-> "A"], [date |-> 1, uuid |-> "A"]},
      window_days |-> 2, range_start |-> 0, range_end |-> 2]}

\* line 813: range_start is not None and range_end is not None
ArgHasRange(a) == a.range_start # NaT /\ a.range_end # NaT

\* line 809: the rows that survive the dropna
ArgUsable(a) == {r \in a.filtered : NotNa(r.uuid)}

\* lines 814-817: start and end after the swap
ArgStart(a) == IF a.range_start > a.range_end THEN a.range_end ELSE a.range_start
ArgEnd(a) == IF a.range_start > a.range_end THEN a.range_start ELSE a.range_end

\* line 819: base
ArgBase(a) ==
    IF ArgHasRange(a)
    THEN {r \in ArgUsable(a) : r.date >= ArgStart(a) /\ r.date <= ArgEnd(a)}
    ELSE ArgUsable(a)

\* lines 835-842: full_dates
ArgFullDates(a) ==
    IF ArgHasRange(a)
    THEN DateRange(a.range_start, a.range_end)
    ELSE DateRange(MinDate(ArgBase(a)), MaxDate(ArgBase(a)))

\* lines 848-851: station_sets_map.get(d, set())
ArgStationSets(a, d) == {r.uuid : r \in {x \in ArgBase(a) : x.date = d}}

\* lines 856-865: the body of the for loop
ArgLoopBody(a, sp, d) ==
    AfterDrop(AfterAdd(sp, ArgStationSets(a, d)), ArgStationSets(a, d - a.window_days))

\* lines 877-885: visible_start
ArgVisibleStart(a, dates) ==
    LET window_offset == Max2(a.window_days - 1, 0)
        first_window_by_range == dates[1] + window_offset
        first_window_by_data == MinDate(ArgBase(a)) + window_offset
    IN  IF first_window_by_range >= first_window_by_data
        THEN first_window_by_range
        ELSE first_window_by_data

\* lines 869-887: the table of the dates and counts, trimmed
ArgTrimmed(a, dates, counts) ==
    SelectSeq([k \in 1..Len(dates) |-> OutRow(dates[k], counts[k])],
              LAMBDA r : r.date >= ArgVisibleStart(a, dates))

\* the map and the counts after the for loop has run over dates
RECURSIVE Slide(_, _)
Slide(a, dates) ==
    IF dates = <<>> THEN [presence |-> EmptyMap, counts |-> <<>>]
    ELSE LET before == Slide(a, SubSeq(dates, 1, Len(dates) - 1))
             sp == ArgLoopBody(a, before.presence, dates[Len(dates)])
         IN  [presence |-> sp, counts |-> Append(before.counts, Cardinality(DOMAIN sp))]

\* what one invocation on its own ends with: the table, or the IndexError
RollingAlone(a) ==
    IF ArgUsable(a) = {} THEN [pc |-> "done", out |-> <<>>]
    ELSE IF ArgBase(a) = {}
    THEN LET fd == DateRange(ArgStart(a), ArgEnd(a))
         IN  [pc |-> "done", out |-> [k \in 1..Len(fd) |-> OutRow(fd[k], 0)]]
    ELSE IF ArgFullDates(a) = <<>> THEN [pc |-> "raised", out |-> <<>>]
    ELSE [pc |-> "done",
          out |-> ArgTrimmed(a, ArgFullDates(a), Slide(a, ArgFullDates(a)).counts)]

\* faulty variant of OwnPresence: one map for the whole process
SharedPresence == station_presence

\* the station_presence the second invocation reads: its own (line 852)
OwnPresence == station_presence2

Rw2Rest ==
    /\ rw2_in = [filtered |-> {}, window_days |-> 1, range_start |-> NaT, range_end |-> NaT]
    /\ rw2_pc = "rest"
    /\ rw2_dates = <<>>
    /\ rw2_i = 1
    /\ station_presence2 = EmptyMap
    /\ rolling_active_counts2 = <<>>
    /\ rw2_out = <<>>

\* the two calls
PairInit ==
    /\ rw_in \in PairArgs
    /\ rw_pc = "start"
    /\ rw_dates = <<>>
    /\ rw_i = 1
    /\ station_presence = EmptyMap
    /\ rolling_active_counts = <<>>
    /\ rw_out = <<>>
    /\ rw2_in \in SecondArgs
    /\ rw2_pc = "start"
    /\ rw2_dates = <<>>
    /\ rw2_i = 1
    /\ station_presence2 = EmptyMap
    /\ rolling_active_counts2 = <<>>
    /\ rw2_out = <<>>

\* lines 806-811 of the second invocation
Rw2ReturnEmpty ==
    /\ rw2_pc = "start"
    /\ ArgUsable(rw2_in) = {}
    /\ rw2_out' = <<>>
    /\ rw2_pc' = "done"
    /\ UNCHANGED <<rw2_in, rw2_dates, rw2_i, station_presence2, rolling_active_counts2>>
    /\ UNCHANGED <<coreVars, rawVars, sfVars>>
    /\ UNCHANGED <<hmVars, conVars, volVars, utVars, shVars, adVars, ftVars, cnVars>>

\* lines 814-828 of the second invocation
Rw2ReturnZeros ==
    /\ rw2_pc = "start"
    /\ ArgUsable(rw2_in) # {}
    /\ ArgHasRange(rw2_in)
    /\ ArgBase(rw2_in) = {}
    /\ rw2_out' = LET fd == DateRange(ArgStart(rw2_in), ArgEnd(rw2_in))
                  IN  [k \in 1..Len(fd) |-> OutRow(fd[k], 0)]
    /\ rw2_pc' = "done"
    /\ UNCHANGED <<rw2_in, rw2_dates, rw2_i, station_presence2, rolling_active_counts2>>
    /\ UNCHANGED <<coreVars, rawVars, sfVars>>
    /\ UNCHANGED <<hmVars, conVars, volVars, utVars, shVars, adVars, ftVars, cnVars>>

\* lines 830-853 of the second invocation
Rw2EnterLoop ==
    /\ rw2_pc = "start"
    /\ ArgBase(rw2_in) # {}
    /\ rw2_dates' = ArgFullDates(rw2_in)
    /\ rw2_i' = 1
    /\ station_presence2' = EmptyMap
    /\ rolling_active_counts2' = <<>>
    /\ rw2_pc' = "loop"
    /\ UNCHANGED <<rw2_in, rw2_out>>
    /\ UNCHANGED <<coreVars, rawVars, sfVars>>
    /\ UNCHANGED <<hmVars, conVars, volVars, utVars, shVars, adVars, ftVars, cnVars>>

\* lines 855-867 of the second invocation: one day of its slide
Rw2Step ==
    /\ rw2_pc = "loop"
    /\ rw2_i <= Len(rw2_dates)
    /\ station_presence2' = ArgLoopBody(rw2_in, OwnPresence, rw2_dates[rw2_i])
    /\ rolling_active_counts2' =
           Append(rolling_active_counts2, Cardinality(DOMAIN station_presence2'))
    /\ rw2_i' = rw2_i + 1
    /\ UNCHANGED <<rw2_in, rw2_pc, rw2_dates, rw2_out>>
    /\ UNCHANGED <<coreVars, rawVars, sfVars>>
    /\ UNCHANGED <<hmVars, conVars, volVars, utVars, shVars, adVars, ftVars, cnVars>>

\* lines 869-887 of the second invocation
Rw2Return ==
    /\ rw2_pc = "loop"
    /\ rw2_i > Len(rw2_dates)
    /\ rw2_dates # <<>>
    /\ rw2_out' = ArgTrimmed(rw2_in, rw2_dates, rolling_active_counts2)
    /\ rw2_pc' = "done"
    /\ UNCHANGED <<rw2_in, rw2_dates, rw2_i, station_presence2, rolling_active_counts2>>
    /\ UNCHANGED <<coreVars, rawVars, sfVars>>
    /\ UNCHANGED <<hmVars, conVars, volVars, utVars, shVars, adVars, ftVars, cnVars>>

\* line 878 of the second invocation: IndexError
Rw2Raise ==
    /\ rw2_pc = "loop"
    /\ rw2_i > Len(rw2_dates)
    /\ rw2_dates = <<>>
    /\ rw2_pc' = "raised"
    /\ UNCHANGED <<rw2_in, rw2_dates, rw2_i, station_presence2, rolling_active_counts2,
                   rw2_out>>
    /\ UNCHANGED <<coreVars, rawVars, sfVars>>
    /\ UNCHANGED <<hmVars, conVars, volVars, utVars, shVars, adVars, ftVars, cnVars>>

(***************************************************************************)
(* Claims about build_rolling_window_metrics                               *)
(***************************************************************************)
\* the days of full_dates the loop has processed
ProcessedDays == {rw_dates[j] : j \in 1..(rw_i - 1)}

\* from scratch: the stations with a row of base on a processed day of [d-W+1, d]
WindowUnion(d) ==
    {r.uuid : r \in {x \in Base : /\ x.date \in ProcessedDays
                                  /\ x.date >= d - WindowDays + 1
                                  /\ x.date <= d}}

\* the distinct stations of the whole table active anywhere within [d-W+1, d]
ActiveAnywhere(d) ==
    {r.uuid : r \in {x \in Usable : x.date >= d - WindowDays + 1 /\ x.date <= d}}

\* C7: after every step of the slide the live set is the union of the daily
\* station sets over the trailing window, every recorded count (and every
\* active_stations_window of the returned table) is the size of that union,
\* and none exceeds the number of distinct stations active anywhere in the
\* window.
C7_LiveSetIsWindowUnion ==
    /\ rw_pc = "loop" =>
          /\ Len(rolling_active_counts) = rw_i - 1
          /\ rw_i > 1 => DOMAIN station_presence = WindowUnion(rw_dates[rw_i - 1])
          /\ \A k \in 1..Len(rolling_active_counts) :
                /\ rolling_active_counts[k] = Cardinality(WindowUnion(rw_dates[k]))
                /\ rolling_active_counts[k] <= Cardinality(ActiveAnywhere(rw_dates[k]))
    /\ rw_pc = "done" =>
          \A k \in 1..Len(rw_out) :
              /\ rw_out[k].active_stations_window = Cardinality(WindowUnion(rw_out[k].date))
              /\ rw_out[k].active_stations_window <= Cardinality(ActiveAnywhere(rw_out[k].date))

\* C7 witness: the window has slid past a day: one station was evicted, one
\* is still live, counted on two days of the window
C7_Witness ==
    /\ rw_pc = "loop" /\ rw_i > WindowDays + 1
    /\ \E a \in RwStations, b \in RwStations :
          /\ a \in DOMAIN station_presence
          /\ station_presence[a] >= 2
          /\ b \notin DOMAIN station_presence
          /\ \E r \in Base : r.uuid = b /\ r.date \in ProcessedDays

\* the earlier end of the requested range, or the first data date without one
RequestedStart == IF HasRange THEN SwappedStart ELSE MinDate(Base)

\* C8 as claimed: first output date = max(range start, first data date) + (W-1)
ClaimedVisibleStart == Max2(RequestedStart, MinDate(Base)) + (WindowDays - 1)

\* C8 (as stated): whenever some usable interval starts inside the requested
\* range, the call returns a table whose dates are all >= max(requested range
\* start, first data date) + (W-1), starting exactly there when that day is
\* within the range.
C8_FirstDateIsVisibleStart ==
    (rw_pc \in {"done", "raised"} /\ Base # {}) =>
        /\ rw_pc = "done"
        /\ \A k \in 1..Len(rw_out) : rw_out[k].date >= ClaimedVisibleStart
        /\ (HasRange /\ ClaimedVisibleStart <= SwappedEnd)
              => (rw_out # <<>> /\ rw_out[1].date = ClaimedVisibleStart)
        /\ (~HasRange /\ ClaimedVisibleStart <= MaxDate(Base))
              => (rw_out # <<>> /\ rw_out[1].date = ClaimedVisibleStart)

\* the processed days of [d-W+1, d] on which station s has a row of base
ActiveDaysIn(s, d) ==
    {x \in ProcessedDays : /\ x >= d - WindowDays + 1
                          /\ x <= d
                          /\ s \in StationSetsMap(x)}

\* C25: after the loop body of day d, station_presence maps every station to
\* the number of processed days of [d-W+1, d] on which it was active; a
\* station has an entry iff that number is at least 1, no entry holds a
\* count <= 0 and no count exceeds W.
C25_PresenceCountsActiveDays ==
    (rw_pc = "loop" /\ rw_i > 1) =>
        LET d == rw_dates[rw_i - 1]
        IN  /\ \A s \in RwStations :
                  /\ GetCount(station_presence, s) = Cardinality(ActiveDaysIn(s, d))
                  /\ s \in DOMAIN station_presence <=> Cardinality(ActiveDaysIn(s, d)) >= 1
            /\ \A s \in DOMAIN station_presence :
                  /\ station_presence[s] > 0
                  /\ station_presence[s] <= WindowDays

\* C25 witness: one station active on every day of a 3-day window holds the
\* count 3 while another, active only on a day that has left, has no entry
C25_Witness ==
    /\ rw_pc = "loop" /\ rw_i > 1
    /\ WindowDays = 3
    /\ \E a \in RwStations, b \in RwStations :
          /\ a \in DOMAIN station_presence
          /\ station_presence[a] = 3
          /\ b \notin DOMAIN station_presence
          /\ \E r \in Base : r.uuid = b /\ r.date = rw_dates[rw_i - 1] - 3

\* the table of the range taken in order: one row per day of the range from
\* the first full window on, with the stations active in the trailing window
OrderedRangeTable ==
    IF Base = {} THEN ZeroTable
    ELSE LET first == Max2(SwappedStart, MinDate(Base)) + Max2(WindowDays - 1, 0)
             days == DateRange(first, SwappedEnd)
         IN  [k \in 1..Len(days) |->
                 OutRow(days[k],
                        Cardinality({r.uuid : r \in {x \in Base :
                                        /\ x.date >= days[k] - WindowDays + 1
                                        /\ x.date <= days[k]}}))]

\* C28 (as stated): a call with range_start later than range_end does not
\* raise and returns the table of the range taken in order, with or without
\* rows inside the range.
C28_ReversedRangeIsSwapped ==
    (HasRange /\ RangeStart > RangeEnd /\ Usable # {}) =>
        /\ rw_pc # "raised"
        /\ rw_pc = "done" => rw_out = OrderedRangeTable

\* C24: of two invocations whose steps interleave, each ends as it ends when
\* it runs alone: with the same table, or with the same error.
C24_InterleavedRunsReturnAloneTables ==
    /\ rw_pc \in {"done", "raised"} =>
          [pc |-> rw_pc, out |-> rw_out] = RollingAlone(rw_in)
    /\ rw2_pc \in {"done", "raised"} =>
          [pc |-> rw2_pc, out |-> rw2_out] = RollingAlone(rw2_in)

\* C24 witness: both invocations have run their loops over two days or more
\* on different arguments, and have returned different, non-empty tables
C24_Witness ==
    /\ rw_pc = "done" /\ rw2_pc = "done"
    /\ Len(rw_dates) >= 2 /\ Len(rw2_dates) >= 2
    /\ rw_in # rw2_in
    /\ rw_out # <<>> /\ rw2_out # <<>>
    /\ rw_out # rw2_out
    /\ station_presence # station_presence2
    /\ rolling_active_counts # rolling_active_counts2

(***************************************************************************)
(* Percentages: n / d * 100.0 as a fraction in lowest terms                *)
(***************************************************************************)
RECURSIVE Gcd(_, _)
Gcd(a, b) == IF b = 0 THEN a ELSE Gcd(b, a % b)

\* the float n / d * 100.0 for naturals n and d > 0
Pct(n, d) == LET g == Gcd(n * 100, d) IN [num |-> (n * 100) \div g, den |-> d \div g]

\* the float 0.0
ZeroPct == [num |-> 0, den |-> 1]

(***************************************************************************)
(* build_station_retention_metrics                                         *)
(* Rows carry the normalized date of started_at and the uuid.              *)
(***************************************************************************)
\* most rows of an explored table
MaxRetRows == 4

RetStations == {"A", "B", "C"}

\* day numbers around the window borders of 7 and 30 days
RetDates == {0, 1, 30, 31, 53, 54, 60}

\* usable rows, and one without uuid that is later than every usable row
RetRowUniverse == [date : RetDates, uuid : RetStations] \cup {[date |-> 61, uuid |-> NaN]}

\* for window_days in [7, 30]
Windows == <<7, 30>>

\* filtered.dropna(subset=["started_at", "uuid"])
RetBase == {r \in ret_in : NotNa(r.uuid)}

\* end_date = base["date"].max()
EndDate == MaxDate(RetBase)

\* the uuids of base with current_lo <= date <= current_hi
ActiveBetween(lo, hi) == {r.uuid : r \in {x \in RetBase : x.date >= lo /\ x.date <= hi}}

\* faulty variant of RetentionRow: the previous window ends on the day the current one starts
RetentionRowOverlap(window_days) ==
    LET current_start == EndDate - (window_days - 1)
        previous_end == current_start
        previous_start == previous_end - (window_days - 1)
        current_set == ActiveBetween(current_start, EndDate)
        previous_set == ActiveBetween(previous_start, previous_end)
        retained == previous_set \cap current_set
        new_set == current_set \ previous_set
        churned == previous_set \ current_set
    IN  [window_days |-> window_days,
         previous_active_stations |-> Cardinality(previous_set),
         current_active_stations |-> Cardinality(current_set),
         retained_stations |-> Cardinality(retained),
         new_stations |-> Cardinality(new_set),
         churned_stations |-> Cardinality(churned),
         retention_pct |-> IF previous_set # {}
                           THEN Pct(Cardinality(retained), Cardinality(previous_set))
                           ELSE ZeroPct]

\* the body of the loop over the windows: one row of the table
RetentionRow(window_days) ==
    LET current_start == EndDate - (window_days - 1)
        previous_end == current_start - 1
        previous_start == previous_end - (window_days - 1)
        current_set == ActiveBetween(current_start, EndDate)
        previous_set == ActiveBetween(previous_start, previous_end)
        retained == previous_set \cap current_set
        new_set == current_set \ previous_set
        churned == previous_set \ current_set
    IN  [window_days |-> window_days,
         previous_active_stations |-> Cardinality(previous_set),
         current_active_stations |-> Cardinality(current_set),
         retained_stations |-> Cardinality(retained),
         new_stations |-> Cardinality(new_set),
         churned_stations |-> Cardinality(churned),
         retention_pct |-> IF previous_set # {}
                           THEN Pct(Cardinality(retained), Cardinality(previous_set))
                           ELSE ZeroPct]

RetRest ==
    /\ ret_in = {}
    /\ ret_pc = "rest"
    /\ ret_w = 1
    /\ ret_rows = <<>>

\* the call: any table of at most MaxRetRows rows
RetInit ==
    /\ ret_in \in {t \in SUBSET RetRowUniverse : Cardinality(t) <= MaxRetRows}
    /\ ret_pc = "start"
    /\ ret_w = 1
    /\ ret_rows = <<>>

\* lines 637-647: nothing usable, the empty table
RetReturnEmpty ==
    /\ ret_pc = "start"
    /\ RetBase = {}
    /\ ret_rows' = <<>>
    /\ ret_pc' = "done"
    /\ UNCHANGED <<ret_in, ret_w>>
    /\ UNCHANGED <<busyVars, rwVars, idleVars, aggVars>>

\* lines 649-650: the anchor and the empty row list
RetEnterLoop ==
    /\ ret_pc = "start"
    /\ RetBase # {}
    /\ ret_rows' = <<>>
    /\ ret_w' = 1
    /\ ret_pc' = "loop"
    /\ UNCHANGED ret_in
    /\ UNCHANGED <<busyVars, rwVars, idleVars, aggVars>>

\* lines 651-685: one window
RetWindow ==
    /\ ret_pc = "loop"
    /\ ret_w <= Len(Windows)
    /\ ret_rows' = Append(ret_rows, RetentionRow(Windows[ret_w]))
    /\ ret_w' = ret_w + 1
    /\ UNCHANGED <<ret_in, ret_pc>>
    /\ UNCHANGED <<busyVars, rwVars, idleVars, aggVars>>

\* line 687: the table of the rows
RetReturn ==
    /\ ret_pc = "loop"
    /\ ret_w > Len(Windows)
    /\ ret_pc' = "done"
    /\ UNCHANGED <<ret_in, ret_w, ret_rows>>
    /\ UNCHANGED <<busyVars, rwVars, idleVars, aggVars>>

(***************************************************************************)
(* Claims about build_station_retention_metrics                            *)
(***************************************************************************)
\* from scratch: the distinct stations with a usable row whose date is
\* more than skip and at most skip + n days before the latest usable date
StationsBack(skip, n) ==
    LET usable == {r \in ret_in : r.uuid \in RetStations}
        anchor == CHOOSE d \in {r.date : r \in usable} : \A r \in usable : r.date <= d
    IN  {u \in RetStations :
            \E r \in usable : /\ r.uuid = u
                              /\ anchor - r.date >= skip
                              /\ anchor - r.date < skip + n}

\* C9: for W = 7 and W = 30 the row reports |cur \cap prev|, |cur \ prev|,
\* |prev \ cur| for cur = stations of the last W days and prev = stations of
\* the W days before; retained + new = current, retained + churned =
\* previous; retention_pct = retained / previous * 100, and 0 without previous.
C9_RetentionSets ==
    (ret_pc = "done" /\ RetBase # {}) =>
        /\ Len(ret_rows) = 2
        /\ \A k \in 1..2 :
              LET w == IF k = 1 THEN 7 ELSE 30
                  row == ret_rows[k]
                  cur == StationsBack(0, w)
                  prev == StationsBack(w, w)
              IN  /\ row.window_days = w
                  /\ row.current_active_stations = Cardinality(cur)
                  /\ row.previous_active_stations = Cardinality(prev)
                  /\ row.retained_stations = Cardinality(cur \cap prev)
                  /\ row.new_stations = Cardinality(cur \ prev)
                  /\ row.churned_stations = Cardinality(prev \ cur)
                  /\ row.retained_stations + row.new_stations
                         = row.current_active_stations
                  /\ row.retained_stations + row.churned_stations
                         = row.previous_active_stations
                  /\ row.retention_pct.den > 0
                  /\ row.retention_pct.num * Cardinality(prev)
                         = 100 * Cardinality(cur \cap prev) * row.retention_pct.den
                  /\ prev = {} => row.retention_pct.num = 0

\* C9 witness: a 7-day row with a retained, a new and a churned station, and
\* a 30-day row without previous stations
C9_Witness ==
    /\ ret_pc = "done"
    /\ Len(ret_rows) = 2
    /\ ret_rows[1].retained_stations = 1
    /\ ret_rows[1].new_stations = 1
    /\ ret_rows[1].churned_stations = 1
    /\ ret_rows[1].retention_pct = [num |-> 50, den |-> 1]
    /\ ret_rows[2].previous_active_stations = 0
    /\ ret_rows[2].retention_pct = ZeroPct

(***************************************************************************)
(* build_idle_station_metrics                                              *)
(* filtered is given by the set of values of its uuid column; station_scope*)
(* by its rows (uuid, city_name). server_info.uuid is the primary key of   *)
(* the table the scope is read from, so a scope row always has a uuid.     *)
(***************************************************************************)
\* most rows of an explored station_scope
MaxScopeRows == 3

IdleStations == {"A", "B", "C"}
Cities == {"Moscow", NaN}

ScopeRows == [uuid : IdleStations, city_name : Cities]

\* the tables of at most n rows
RECURSIVE ScopesUpTo(_)
ScopesUpTo(n) ==
    IF n = 0 THEN {<<>>}
    ELSE LET shorter == ScopesUpTo(n - 1)
         IN  shorter \cup {Append(t, r) : t \in {x \in shorter : Len(x) = n - 1},
                                            r \in ScopeRows}

\* faulty variant of DropDuplicates: the duplicates stay
DropDuplicatesNot(t) == t

\* station_scope.drop_duplicates("uuid"): the first row of every uuid
RECURSIVE DropDuplicates(_)
DropDuplicates(t) ==
    IF t = <<>> THEN <<>>
    ELSE LET head == DropDuplicates(SubSeq(t, 1, Len(t) - 1))
             r == t[Len(t)]
         IN  IF \E i \in 1..Len(head) : head[i].uuid = r.uuid THEN head ELSE Append(head, r)

\* scope["city_name"].fillna("Unknown")
FillCity(c) == IF NotNa(c) THEN c ELSE "Unknown"

\* scope of line 459-460
Scope == LET d == DropDuplicates(idle_in.station_scope)
         IN  [i \in 1..Len(d) |-> [uuid |-> d[i].uuid, city_name |-> FillCity(d[i].city_name)]]

\* set(filtered["uuid"].dropna().unique()), set() for an empty table
ActiveUuids == {u \in idle_in.filtered_uuids : NotNa(u)}

\* series.nunique(): the distinct values that are not missing
Nunique(values) == Cardinality({v \in values : NotNa(v)})

\* the summary of lines 462-474
IdleSummary ==
    LET is_active(r) == r.uuid \in ActiveUuids
        is_idle(r) == ~is_active(r)
        stations_in_scope == Nunique({Scope[i].uuid : i \in 1..Len(Scope)})
        active_stations == Len(SelectSeq(Scope, is_active))
        idle_stations == Len(SelectSeq(Scope, is_idle))
    IN  [stations_in_scope |-> stations_in_scope,
         active_stations |-> active_stations,
         idle_stations |-> idle_stations,
         idle_ratio_pct |-> IF stations_in_scope # 0
                            THEN Pct(idle_stations, stations_in_scope)
                            ELSE ZeroPct]

\* the sorted order of the city labels
IdleCityRank(c) == IF c = "Moscow" THEN 1 ELSE 2

\* faulty variant of IdleRatioPct: the idle stations over the active ones
IdleRatioOverActive(idle_stations, stations_in_scope) ==
    IF stations_in_scope - idle_stations # 0
    THEN Pct(idle_stations, stations_in_scope - idle_stations)
    ELSE [num |-> IF idle_stations > 0 THEN 1 ELSE 0, den |-> 0]

\* idle_stations / stations_in_scope * 100.0 of line 484: inf or NaN for a
\* zero divisor
IdleRatioPct(idle_stations, stations_in_scope) ==
    IF stations_in_scope # 0 THEN Pct(idle_stations, stations_in_scope)
    ELSE [num |-> IF idle_stations > 0 THEN 1 ELSE 0, den |-> 0]

\* the rows of a set of city rows, largest idle_ratio_pct first
RECURSIVE SortByIdleRatioDesc(_)
SortByIdleRatioDesc(S) ==
    IF S = {} THEN <<>>
    ELSE LET first == CHOOSE r \in S : \A o \in S :
                          \/ o.idle_ratio_pct.num * r.idle_ratio_pct.den
                                 < r.idle_ratio_pct.num * o.idle_ratio_pct.den
                          \/ /\ o.idle_ratio_pct = r.idle_ratio_pct
                             /\ IdleCityRank(r.city) <= IdleCityRank(o.city)
         IN  <<first>> \o SortByIdleRatioDesc(S \ {first})

\* city_df of lines 476-488
IdleCityTable ==
    LET cities == {Scope[i].city_name : i \in 1..Len(Scope)}
        in_city(c) == LET test(r) == r.city_name = c IN SelectSeq(Scope, test)
        is_idle(r) == r.uuid \notin ActiveUuids
        row(c) ==
            LET stations_in_scope == Nunique({in_city(c)[i].uuid : i \in 1..Len(in_city(c))})
                idle_stations == Len(SelectSeq(in_city(c), is_idle))
            IN  [city |-> c,
                 stations_in_scope |-> stations_in_scope,
                 idle_stations |-> idle_stations,
                 idle_ratio_pct |-> IdleRatioPct(idle_stations, stations_in_scope)]
    IN  SortByIdleRatioDesc({row(c) : c \in cities})

\* the summary of lines 447-452
ZeroSummary ==
    [stations_in_scope |-> 0, active_stations |-> 0, idle_stations |-> 0,
     idle_ratio_pct |-> ZeroPct]

IdleRest ==
    /\ idle_in = [filtered_uuids |-> {}, station_scope |-> <<>>]
    /\ idle_pc = "rest"
    /\ idle_summary = ZeroSummary
    /\ idle_city = <<>>

\* the call: any scope of at most MaxScopeRows rows, any set of active uuids
IdleInit ==
    /\ idle_in \in [filtered_uuids : SUBSET (IdleStations \cup {NaN}),
                    station_scope : ScopesUpTo(MaxScopeRows)]
    /\ idle_pc = "start"
    /\ idle_summary = ZeroSummary
    /\ idle_city = <<>>

\* lines 456-457: an empty scope, the zero summary
IdleReturnEmpty ==
    /\ idle_pc = "start"
    /\ idle_in.station_scope = <<>>
    /\ idle_summary' = ZeroSummary
    /\ idle_city' = <<>>
    /\ idle_pc' = "done"
    /\ UNCHANGED idle_in
    /\ UNCHANGED <<busyVars, rwVars, retVars, aggVars>>

\* lines 459-491
IdleReturn ==
    /\ idle_pc = "start"
    /\ idle_in.station_scope # <<>>
    /\ idle_summary' = IdleSummary
    /\ idle_city' = IdleCityTable
    /\ idle_pc' = "done"
    /\ UNCHANGED idle_in
    /\ UNCHANGED <<busyVars, rwVars, retVars, aggVars>>

(***************************************************************************)
(* Claims about build_idle_station_metrics                                 *)
(***************************************************************************)
\* the stations that have a row in the scope handed in
ScopeStations ==
    {u \in IdleStations :
        \E i \in 1..Len(idle_in.station_scope) : idle_in.station_scope[i].uuid = u}

\* C10: idle_stations + active_stations = stations_in_scope, where the
\* active stations are the scope stations whose uuid occurs in the filtered
\* intervals and the idle ones are the others.
C10_IdlePlusActiveIsScope ==
    idle_pc = "done" =>
        /\ idle_summary.idle_stations + idle_summary.active_stations
               = idle_summary.stations_in_scope
        /\ idle_summary.stations_in_scope = Cardinality(ScopeStations)
        /\ idle_summary.active_stations
               = Cardinality(ScopeStations \cap idle_in.filtered_uuids)
        /\ idle_summary.idle_stations
               = Cardinality(ScopeStations \ idle_in.filtered_uuids)

\* C10 witness: a scope that lists a station twice, with an active and an
\* idle station
C10_Witness ==
    /\ idle_pc = "done"
    /\ Len(idle_in.station_scope) > Cardinality(ScopeStations)
    /\ idle_summary.active_stations = 1
    /\ idle_summary.idle_stations = 1
    /\ idle_summary.stations_in_scope = 2

(***************************************************************************)
(* Floats as fractions in lowest terms with a positive denominator         *)
(***************************************************************************)
Abs(x) == IF x < 0 THEN -x ELSE x

\* the float n / d for integers n and d > 0
Frac(n, d) ==
    LET g == Gcd(Abs(n), d)
    IN  [num |-> n \div g, den |-> d \div g]

\* a + b, a - b, a * b of floats
FracAdd(a, b) == Frac(a.num * b.den + b.num * a.den, a.den * b.den)
FracSub(a, b) == Frac(a.num * b.den - b.num * a.den, a.den * b.den)
FracMul(a, b) == Frac(a.num * b.num, a.den * b.den)

\* a < b of floats
FracLt(a, b) == a.num * b.den < b.num * a.den

\* series.sum() of the floats of a sequence
RECURSIVE FracSum(_)
FracSum(q) == IF q = <<>> THEN ZeroPct ELSE FracAdd(FracSum(Tail(q)), Head(q))

\* table["duration_sec"].sum() over the rows of a sequence: NaN is skipped
RECURSIVE SumDuration(_)
SumDuration(t) ==
    IF t = <<>> THEN 0
    ELSE (IF Head(t).duration_sec = NaNSec THEN 0 ELSE Head(t).duration_sec)
             + SumDuration(Tail(t))

\* the sequences of at most n elements of the set S
RECURSIVE SeqsUpTo(_, _)
SeqsUpTo(S, n) ==
    IF n = 0 THEN {<<>>}
    ELSE LET shorter == SeqsUpTo(S, n - 1)
         IN  shorter \cup {Append(t, r) : t \in {x \in shorter : Len(x) = n - 1}, r \in S}

(***************************************************************************)
(* build_demand_heatmap                                                    *)
(* started_at is counted in whole hours since a Monday 00:00.              *)
(***************************************************************************)
\* most rows of an explored table
MaxHmRows == 2

\* range(24), range(7) and the seconds of an hour
HoursPerDay == 24
DaysPerWeek == 7
SecPerHour == 3600

\* Monday 00:00 and 23:00, Tuesday 00:00, Sunday 23:00, the next Monday 00:00
HmStarts == {0, 23, 24, 167, 168, NaT}
HmDurations == {0, 1800, 3600, NaNSec}
HmRowUniverse == [started_at : HmStarts, duration_sec : HmDurations]

\* started.dt.dayofweek and started.dt.hour
DayOfWeek(ts) == (ts \div HoursPerDay) % DaysPerWeek
HourOf(ts) == ts % HoursPerDay

\* weekday_map
WeekdayMap(n) ==
    CASE n = 0 -> "Mon" [] n = 1 -> "Tue" [] n = 2 -> "Wed" [] n = 3 -> "Thu"
      [] n = 4 -> "Fri" [] n = 5 -> "Sat" [] n = 6 -> "Sun"

HmColumns == <<"weekday_num", "weekday", "hour", "busy_hours">>

\* filtered.dropna(subset=["started_at", "duration_sec"]) with weekday_num and hour
HmBase ==
    LET usable(r) == r.started_at # NaT /\ r.duration_sec # NaNSec
        kept == SelectSeq(hm_in, usable)
    IN  [i \in 1..Len(kept) |->
            [weekday_num |-> DayOfWeek(kept[i].started_at),
             hour |-> HourOf(kept[i].started_at),
             duration_sec |-> kept[i].duration_sec]]

\* heat: one row per (weekday_num, hour) of base with the summed duration in hours
Heat ==
    LET keys == {<<HmBase[i].weekday_num, HmBase[i].hour>> : i \in 1..Len(HmBase)}
        in_cell(k) == LET test(r) == r.weekday_num = k[1] /\ r.hour = k[2]
                      IN  SelectSeq(HmBase, test)
    IN  {[weekday_num |-> k[1], weekday |-> WeekdayMap(k[1]), hour |-> k[2],
          busy_hours |-> Frac(SumDuration(in_cell(k)), SecPerHour)] : k \in keys}

\* full: the product range(7) x range(24) in its order, with the weekday name
Full ==
    [i \in 1..(DaysPerWeek * HoursPerDay) |->
        [weekday_num |-> (i - 1) \div HoursPerDay,
         weekday |-> WeekdayMap((i - 1) \div HoursPerDay),
         hour |-> (i - 1) % HoursPerDay]]

\* faulty variant of HmMerge: an inner join, only the cells of heat
HmMergeInner(heat) ==
    LET has(f) == \E h \in heat : /\ h.weekday_num = f.weekday_num
                                  /\ h.weekday = f.weekday
                                  /\ h.hour = f.hour
        kept == SelectSeq(Full, has)
    IN  [i \in 1..Len(kept) |->
            LET f == kept[i]
                hit == {h \in heat : /\ h.weekday_num = f.weekday_num
                                     /\ h.weekday = f.weekday
                                     /\ h.hour = f.hour}
            IN  [weekday_num |-> f.weekday_num, weekday |-> f.weekday, hour |-> f.hour,
                 busy_hours |-> (CHOOSE h \in hit : TRUE).busy_hours]]

\* full.merge(heat, how="left").fillna({"busy_hours": 0.0}), sorted by weekday_num, hour
HmMerge(heat) ==
    [i \in 1..Len(Full) |->
        LET f == Full[i]
            hit == {h \in heat : /\ h.weekday_num = f.weekday_num
                                 /\ h.weekday = f.weekday
                                 /\ h.hour = f.hour}
        IN  [weekday_num |-> f.weekday_num, weekday |-> f.weekday, hour |-> f.hour,
             busy_hours |-> IF hit = {} THEN ZeroPct
                            ELSE (CHOOSE h \in hit : TRUE).busy_hours]]

HmRest ==
    /\ hm_in = <<>>
    /\ hm_pc = "rest"
    /\ hm_out = [columns |-> <<>>, rows |-> <<>>]

\* the call: any table of at most MaxHmRows rows
HmInit ==
    /\ hm_in \in SeqsUpTo(HmRowUniverse, MaxHmRows)
    /\ hm_pc = "start"
    /\ hm_out = [columns |-> <<>>, rows |-> <<>>]

\* lines 235-248: no row, or no row with a start and a duration
HmReturnEmpty ==
    /\ hm_pc = "start"
    /\ HmBase = <<>>
    /\ hm_out' = [columns |-> HmColumns, rows |-> <<>>]
    /\ hm_pc' = "done"
    /\ UNCHANGED hm_in
    /\ UNCHANGED <<coreVars, extVars, conVars, volVars, utVars, shVars, adVars, ftVars, cnVars>>

\* lines 250-277
HmReturn ==
    /\ hm_pc = "start"
    /\ HmBase # <<>>
    /\ hm_out' = [columns |-> HmColumns, rows |-> HmMerge(Heat)]
    /\ hm_pc' = "done"
    /\ UNCHANGED hm_in
    /\ UNCHANGED <<coreVars, extVars, conVars, volVars, utVars, shVars, adVars, ftVars, cnVars>>

(***************************************************************************)
(* Claims about build_demand_heatmap                                       *)
(***************************************************************************)
\* the rows of the input that have a start and a duration
HmUsable == {i \in 1..Len(hm_in) : hm_in[i].started_at >= 0 /\ hm_in[i].duration_sec >= 0}

\* the table has one row for every (weekday, hour) pair and no other row, and
\* a cell that no interval start falls into holds 0 hours
HmGridComplete ==
    /\ Len(hm_out.rows) = 168
    /\ \A wd \in 0..6, h \in 0..23 :
          \E i \in 1..Len(hm_out.rows) :
              /\ hm_out.rows[i].weekday_num = wd
              /\ hm_out.rows[i].hour = h
              /\ (\A j \in HmUsable : ~(/\ (hm_in[j].started_at \div 24) % 7 = wd
                                         /\ hm_in[j].started_at % 24 = h))
                     => hm_out.rows[i].busy_hours.num = 0

\* C11 as stated: for every input table the returned table has exactly 168
\* rows, one per (weekday 0..6, hour 0..23), with busy_hours 0 in every cell
\* that no interval start falls into.
C11_AlwaysFullGrid == hm_pc = "done" => HmGridComplete

\* C11 amended: the grid is complete for every input table that has at least
\* one row with a start and a duration; for the other tables the returned
\* table has the four columns and no row.
C11_FullGridWhenUsable ==
    hm_pc = "done" =>
        /\ hm_out.columns = <<"weekday_num", "weekday", "hour", "busy_hours">>
        /\ HmUsable # {} => HmGridComplete
        /\ HmUsable = {} => hm_out.rows = <<>>

\* C11 witness: two starts a week apart fall into the Monday 00:00 cell, the
\* Monday 01:00 cell has none
C11_Witness ==
    /\ hm_pc = "done"
    /\ Len(hm_in) = 2
    /\ hm_in[1].started_at = 0
    /\ hm_in[2].started_at = 168
    /\ Len(hm_out.rows) = 168
    /\ hm_out.rows[1].busy_hours = [num |-> 3, den |-> 2]
    /\ hm_out.rows[2].busy_hours = [num |-> 0, den |-> 1]

(***************************************************************************)
(* build_concentration_metrics and _concentration_for_key                  *)
(* Rows carry uuid, product_id and duration_sec.                           *)
(***************************************************************************)
\* most rows of an explored table in which any value may be missing
MaxConRows == 2
\* most stations of an explored table with one row per station
MaxEntities == 11

\* head(10)
TopCount == 10
\* the scale of the HHI
HhiScale == 10000

ConStationNames ==
    <<"u01", "u02", "u03", "u04", "u05", "u06", "u07", "u08", "u09", "u10",
      "u11", "u12", "u13", "u14">>
ConProductNames == <<"P1", "P2", "P3">>

\* the position of a key in the sorted order of its column
ConKeyRank(k) ==
    IF \E i \in 1..Len(ConStationNames) : ConStationNames[i] = k
    THEN CHOOSE i \in 1..Len(ConStationNames) : ConStationNames[i] = k
    ELSE CHOOSE i \in 1..Len(ConProductNames) : ConProductNames[i] = k

\* short tables over two stations and two products, with missing values
ConRowUniverse ==
    [uuid : {"u01", "u02", NaN}, product_id : {"P1", "P2", NaN},
     duration_sec : {0, 1800, 3600, NaNSec}]

\* tables of n rows, one station per row, the products in turn
ConWideTables(n) ==
    {[i \in 1..n |-> [uuid |-> ConStationNames[i],
                      product_id |-> ConProductNames[((i - 1) % 3) + 1],
                      duration_sec |-> f[i]]] : f \in [1..n -> {1800, 3600}]}

ConTables ==
    SeqsUpTo(ConRowUniverse, MaxConRows)
        \cup UNION {ConWideTables(n) : n \in 3..MaxEntities}

\* the value of the key column of a row
KeyOf(r, key) == IF key = "uuid" THEN r.uuid ELSE r.product_id

\* the rows of a set of group rows, largest duration first (equal durations
\* in the order of the groups)
RECURSIVE SortByDurationDesc(_)
SortByDurationDesc(S) ==
    IF S = {} THEN <<>>
    ELSE LET first == CHOOSE r \in S : \A o \in S :
                          \/ r.duration_sec > o.duration_sec
                          \/ /\ r.duration_sec = o.duration_sec
                             /\ ConKeyRank(r.key) <= ConKeyRank(o.key)
         IN  <<first>> \o SortByDurationDesc(S \ {first})

\* grouped of lines 495-501
Grouped(filtered, key) ==
    LET usable(r) == NotNa(KeyOf(r, key)) /\ r.duration_sec # NaNSec
        kept == SelectSeq(filtered, usable)
        keys == {KeyOf(kept[i], key) : i \in 1..Len(kept)}
        of_key(k) == LET test(r) == KeyOf(r, key) = k IN SelectSeq(kept, test)
    IN  SortByDurationDesc({[key |-> k, duration_sec |-> SumDuration(of_key(k))] : k \in keys})

\* table.head(n)
HeadRows(t, n) == SubSeq(t, 1, IF Len(t) < n THEN Len(t) ELSE n)

\* faulty variant of SharePct: the share of the largest group instead of the total
SharePctOfLargest(grouped, total) ==
    [i \in 1..Len(grouped) |->
        IF grouped[1].duration_sec # 0
        THEN Frac(grouped[i].duration_sec * 100, grouped[1].duration_sec)
        ELSE ZeroPct]

\* line 507: grouped["duration_sec"] / total * 100.0 if total else 0.0
SharePct(grouped, total) ==
    [i \in 1..Len(grouped) |->
        IF total # 0 THEN Frac(grouped[i].duration_sec * 100, total) ELSE ZeroPct]

\* _concentration_for_key: the table, top10_share and hhi
ConcentrationForKey(filtered, key) ==
    LET grouped == Grouped(filtered, key)
        columns == <<key, "duration_sec", "share_pct">>
    IN  IF grouped = <<>>
        THEN [table |-> [columns |-> columns, rows |-> <<>>],
              top10_share |-> ZeroPct, hhi |-> ZeroPct]
        ELSE LET total == SumDuration(grouped)
                 share_pct == SharePct(grouped, total)
                 top10_share == FracSum(HeadRows(share_pct, TopCount))
                 shares_fraction == [i \in 1..Len(grouped) |->
                                        FracMul(share_pct[i], Frac(1, 100))]
                 squares == [i \in 1..Len(grouped) |->
                                FracMul(shares_fraction[i], shares_fraction[i])]
                 hhi == FracMul(FracSum(squares), Frac(HhiScale, 1))
             IN  [table |-> [columns |-> columns,
                             rows |-> [i \in 1..Len(grouped) |->
                                          [key |-> grouped[i].key,
                                           duration_sec |-> grouped[i].duration_sec,
                                           share_pct |-> share_pct[i]]]],
                  top10_share |-> top10_share, hhi |-> hhi]

\* the summary of lines 517-522
ConZeroSummary ==
    [station_top10_share_pct |-> ZeroPct, station_hhi |-> ZeroPct,
     product_top10_share_pct |-> ZeroPct, product_hhi |-> ZeroPct]

\* pd.DataFrame(): a table without columns and rows
UntypedTable == [columns |-> <<>>, rows |-> <<>>]

ConRest ==
    /\ con_in = <<>>
    /\ con_pc = "rest"
    /\ con_out = [summary |-> ConZeroSummary, station_df |-> UntypedTable,
                  product_df |-> UntypedTable]

\* the call
ConInit ==
    /\ con_in \in ConTables
    /\ con_pc = "start"
    /\ con_out = [summary |-> ConZeroSummary, station_df |-> UntypedTable,
                  product_df |-> UntypedTable]

\* lines 523-524: filtered.empty
ConReturnEmpty ==
    /\ con_pc = "start"
    /\ con_in = <<>>
    /\ con_out' = [summary |-> ConZeroSummary, station_df |-> UntypedTable,
                   product_df |-> UntypedTable]
    /\ con_pc' = "done"
    /\ UNCHANGED con_in
    /\ UNCHANGED <<coreVars, extVars, hmVars, volVars, utVars, shVars, adVars, ftVars, cnVars>>

\* lines 526-534
ConReturn ==
    /\ con_pc = "start"
    /\ con_in # <<>>
    /\ LET by_station == ConcentrationForKey(con_in, "uuid")
           by_product == ConcentrationForKey(con_in, "product_id")
       IN  con_out' = [summary |-> [station_top10_share_pct |-> by_station.top10_share,
                                     station_hhi |-> by_station.hhi,
                                     product_top10_share_pct |-> by_product.top10_share,
                                     product_hhi |-> by_product.hhi],
                       station_df |-> by_station.table,
                       product_df |-> by_product.table]
    /\ con_pc' = "done"
    /\ UNCHANGED con_in
    /\ UNCHANGED <<coreVars, extVars, hmVars, volVars, utVars, shVars, adVars, ftVars, cnVars>>

(***************************************************************************)
(* build_volatility_metrics and _volatility_by_group                       *)
(* Rows carry the normalized date of started_at, uuid, city_name and       *)
(* duration_sec. A standard deviation is the root of a fraction and is     *)
(* kept as that fraction: RootOf(f) stands for the float sqrt(f).          *)
(***************************************************************************)
\* most rows of an explored table
MaxVolRows == 2

VolDates == {0, 2, NaT}
VolStations == {"A", "B", NaN}
VolCities == {"Moscow", NaN}
VolDurations == {0, 3600, NaNSec}
VolRowUniverse ==
    [date : VolDates, uuid : VolStations, city_name : VolCities, duration_sec : VolDurations]

\* the sorted order of the group labels
VolGroupNames == <<"A", "B", "Moscow", "Unknown">>
VolRank(g) == CHOOSE i \in 1..Len(VolGroupNames) : VolGroupNames[i] = g

VolColumns ==
    <<"group", "total_hours", "mean_daily_hours", "std_daily_hours", "cv_pct", "active_days">>

\* the float sqrt(f)
RootOf(f) == [square |-> f]

\* base of lines 598-603
VolBase ==
    LET usable(r) == r.date # NaT /\ r.duration_sec # NaNSec /\ NotNa(r.uuid)
    IN  SelectSeq(vol_in, usable)

\* faulty variant of VolFullDates: the first and the last observed day only
VolObservedEnds ==
    LET days == {VolBase[i].date : i \in 1..Len(VolBase)}
        lo == CHOOSE d \in days : \A e \in days : d <= e
        hi == CHOOSE d \in days : \A e \in days : e <= d
    IN  IF lo = hi THEN <<lo>> ELSE <<lo, hi>>

\* pd.date_range(base["date"].min(), base["date"].max(), freq="D")
VolFullDates ==
    LET days == {VolBase[i].date : i \in 1..Len(VolBase)}
        lo == CHOOSE d \in days : \A e \in days : d <= e
        hi == CHOOSE d \in days : \A e \in days : e <= d
    IN  [i \in 1..(hi - lo + 1) |-> lo + i - 1]

\* the hours of every day of full_dates for the rows that pass the test
DailyHours(rows, full_dates) ==
    [i \in 1..Len(full_dates) |->
        LET on_day(r) == r.date = full_dates[i]
        IN  Frac(SumDuration(SelectSeq(rows, on_day)), SecPerHour)]

\* series.mean()
Mean(q) == FracMul(FracSum(q), Frac(1, Len(q)))

\* the square of series.std(ddof=0)
Variance(q) ==
    LET m == Mean(q)
        dev == [i \in 1..Len(q) |-> FracMul(FracSub(q[i], m), FracSub(q[i], m))]
    IN  Mean(dev)

\* faulty variant of CvPct: the division by a zero mean is not replaced
CvPctUnguarded(mean_daily, variance) ==
    IF mean_daily.num = 0
    THEN RootOf([num |-> 1, den |-> 0])
    ELSE RootOf(FracMul(FracMul(variance, Frac(mean_daily.den * mean_daily.den,
                                                mean_daily.num * mean_daily.num)),
                        Frac(10000, 1)))

\* std / mean * 100.0, and 0.0 for a zero mean (lines 572-573 and 619)
CvPct(mean_daily, variance) ==
    IF mean_daily.num = 0
    THEN RootOf(ZeroPct)
    ELSE RootOf(FracMul(FracMul(variance, Frac(mean_daily.den * mean_daily.den,
                                                mean_daily.num * mean_daily.num)),
                        Frac(10000, 1)))

\* the label of a row in the grouping column: d[group_col].fillna(group_label)
VolGroupOf(r, group_col) ==
    LET v == IF group_col = "uuid" THEN r.uuid ELSE r.city_name
    IN  IF NotNa(v) THEN v ELSE "Unknown"

\* the rows of a set of stats rows, largest cv_pct first
RECURSIVE SortByCvDesc(_)
SortByCvDesc(S) ==
    IF S = {} THEN <<>>
    ELSE LET first == CHOOSE r \in S : \A o \in S :
                          \/ FracLt(o.cv_pct.square, r.cv_pct.square)
                          \/ /\ o.cv_pct.square = r.cv_pct.square
                             /\ VolRank(r.group) <= VolRank(o.group)
         IN  <<first>> \o SortByCvDesc(S \ {first})

\* _volatility_by_group
VolatilityByGroup(base, group_col, full_dates) ==
    LET groups == {VolGroupOf(base[i], group_col) : i \in 1..Len(base)}
        of_group(g) == LET test(r) == VolGroupOf(r, group_col) = g IN SelectSeq(base, test)
        stats(g) ==
            LET daily_hours == DailyHours(of_group(g), full_dates)
                positive(x) == x.num > 0
            IN  [group |-> g,
                 total_hours |-> FracSum(daily_hours),
                 mean_daily_hours |-> Mean(daily_hours),
                 std_daily_hours |-> RootOf(Variance(daily_hours)),
                 cv_pct |-> CvPct(Mean(daily_hours), Variance(daily_hours)),
                 active_days |-> Len(SelectSeq(daily_hours, positive))]
    IN  [columns |-> VolColumns, rows |-> SortByCvDesc({stats(g) : g \in groups})]

\* the summary of lines 580-584
VolZeroSummary ==
    [network_mean_daily_hours |-> ZeroPct,
     network_std_daily_hours |-> RootOf(ZeroPct),
     network_cv_pct |-> RootOf(ZeroPct)]

\* empty of lines 585-594
VolEmptyTable == [columns |-> VolColumns, rows |-> <<>>]

VolRest ==
    /\ vol_in = <<>>
    /\ vol_pc = "rest"
    /\ vol_out = [summary |-> VolZeroSummary, city_stats |-> VolEmptyTable,
                  station_stats |-> VolEmptyTable]

\* the call: any table of at most MaxVolRows rows
VolInit ==
    /\ vol_in \in SeqsUpTo(VolRowUniverse, MaxVolRows)
    /\ vol_pc = "start"
    /\ vol_out = [summary |-> VolZeroSummary, city_stats |-> VolEmptyTable,
                  station_stats |-> VolEmptyTable]

\* lines 595-605: no row, or no row with a start, a duration and a uuid
VolReturnEmpty ==
    /\ vol_pc = "start"
    /\ VolBase = <<>>
    /\ vol_out' = [summary |-> VolZeroSummary, city_stats |-> VolEmptyTable,
                   station_stats |-> VolEmptyTable]
    /\ vol_pc' = "done"
    /\ UNCHANGED vol_in
    /\ UNCHANGED <<coreVars, extVars, hmVars, conVars, utVars, shVars, adVars, ftVars, cnVars>>

\* lines 607-624
VolReturn ==
    /\ vol_pc = "start"
    /\ VolBase # <<>>
    /\ LET daily_network == DailyHours(VolBase, VolFullDates)
           mean_daily == Mean(daily_network)
           variance == Variance(daily_network)
       IN  vol_out' =
               [summary |-> [network_mean_daily_hours |-> mean_daily,
                             network_std_daily_hours |-> RootOf(variance),
                             network_cv_pct |-> CvPct(mean_daily, variance)],
                city_stats |-> VolatilityByGroup(VolBase, "city_name", VolFullDates),
                station_stats |-> VolatilityByGroup(VolBase, "uuid", VolFullDates)]
    /\ vol_pc' = "done"
    /\ UNCHANGED vol_in
    /\ UNCHANGED <<coreVars, extVars, hmVars, conVars, utVars, shVars, adVars, ftVars, cnVars>>

\* the sum of a sequence of integers
RECURSIVE SumInts(_)
SumInts(q) == IF q = <<>> THEN 0 ELSE Head(q) + SumInts(Tail(q))

(***************************************************************************)
(* Claims about build_volatility_metrics                                   *)
(***************************************************************************)
\* the rows of the input with a date, a duration and a uuid
VolUsable ==
    {i \in 1..Len(vol_in) : /\ vol_in[i].date >= 0
                            /\ vol_in[i].duration_sec >= 0
                            /\ vol_in[i].uuid # NaN}

\* the calendar days from the first to the last observed start date
VolSpan ==
    LET days == {vol_in[i].date : i \in VolUsable}
    IN  {d \in 0..3 : (\E e \in days : e <= d) /\ (\E e \in days : d <= e)}

\* the seconds of day d (of every day for d = NaT) of the rows whose value
\* in the column col is g; col "all" takes every row
VolSeconds(col, g, d) ==
    SumInts([i \in 1..Len(vol_in) |->
                IF /\ i \in VolUsable
                   /\ d = NaT \/ vol_in[i].date = d
                   /\ \/ col = "all"
                      \/ col = "uuid" /\ vol_in[i].uuid = g
                      \/ col = "city_name" /\ vol_in[i].city_name = g
                      \/ col = "city_name" /\ g = "Unknown" /\ vol_in[i].city_name = NaN
                THEN vol_in[i].duration_sec ELSE 0])

\* mean, std and cv_pct are those of the series with one entry per day of
\* the span for the rows of g
VolSeriesStats(col, g, mean, std, cv) ==
    LET n == Cardinality(VolSpan)
        squares == SumInts([k \in 1..4 |->
                      IF (k - 1) \in VolSpan
                      THEN (VolSeconds(col, g, k - 1) \div 1800)
                               * (VolSeconds(col, g, k - 1) \div 1800)
                      ELSE 0])
    IN  /\ mean = Frac(VolSeconds(col, g, NaT), SecPerHour * n)
        \* std^2 = sum(x^2) / n - mean^2, the hours counted in half hours
        /\ std.square = FracSub(Frac(squares, 4 * n), FracMul(mean, mean))
        /\ mean.num = 0 => cv.square = ZeroPct
        /\ mean.num # 0 =>
              FracMul(cv.square, FracMul(mean, mean)) = FracMul(std.square, Frac(10000, 1))

\* C26: the daily series has one entry per calendar day from the first to the
\* last observed start date, 0 on days without intervals, and that span is
\* used for the network and for every city and station group: each mean is
\* the total hours over the number of days of the span, the deviation is
\* that of the gap-filled series, and cv_pct is 0 whenever the mean is 0.
C26_SeriesSpansObservedRange ==
    (vol_pc = "done" /\ VolUsable # {}) =>
        /\ VolSeriesStats("all", "all", vol_out.summary.network_mean_daily_hours,
                          vol_out.summary.network_std_daily_hours,
                          vol_out.summary.network_cv_pct)
        /\ \A k \in 1..Len(vol_out.city_stats.rows) :
              LET row == vol_out.city_stats.rows[k]
              IN  /\ row.total_hours = Frac(VolSeconds("city_name", row.group, NaT), SecPerHour)
                  /\ VolSeriesStats("city_name", row.group, row.mean_daily_hours,
                                    row.std_daily_hours, row.cv_pct)
                  /\ row.active_days <= Cardinality(VolSpan)
        /\ \A k \in 1..Len(vol_out.station_stats.rows) :
              LET row == vol_out.station_stats.rows[k]
              IN  /\ row.total_hours = Frac(VolSeconds("uuid", row.group, NaT), SecPerHour)
                  /\ VolSeriesStats("uuid", row.group, row.mean_daily_hours,
                                    row.std_daily_hours, row.cv_pct)
                  /\ row.active_days <= Cardinality(VolSpan)

\* C26 witness: a station with one hour on the first of three days of the
\* span, the last day being another station's: mean 1/3, cv_pct sqrt(20000)
C26_Witness ==
    /\ vol_pc = "done"
    /\ Cardinality(VolSpan) = 3
    /\ \E k \in 1..Len(vol_out.station_stats.rows) :
          LET row == vol_out.station_stats.rows[k]
          IN  /\ row.total_hours = [num |-> 1, den |-> 1]
              /\ row.mean_daily_hours = [num |-> 1, den |-> 3]
              /\ row.active_days = 1
              /\ row.cv_pct = [square |-> [num |-> 20000, den |-> 1]]

(***************************************************************************)
(* Claims about the empty results of the metric builders                   *)
(***************************************************************************)
\* no row of the concentration input has a duration together with a uuid or
\* a product_id
ConNothingUsable ==
    \A i \in 1..Len(con_in) :
        \/ con_in[i].duration_sec < 0
        \/ con_in[i].uuid = NaN /\ con_in[i].product_id = NaN

\* no row of the volatility input has a date, a duration and a uuid
VolNothingUsable ==
    \A i \in 1..Len(vol_in) :
        vol_in[i].date < 0 \/ vol_in[i].duration_sec < 0 \/ vol_in[i].uuid = NaN

\* C12: a builder given an empty table, or one whose rows are all unusable,
\* returns tables that carry the builder's fixed columns and no rows, and a
\* summary with every key 0; no returned table is without columns.
C12_EmptyInputTypedTables ==
    /\ (con_pc = "done" /\ ConNothingUsable) =>
          /\ con_out.station_df = [columns |-> <<"uuid", "duration_sec", "share_pct">>,
                                   rows |-> <<>>]
          /\ con_out.product_df = [columns |-> <<"product_id", "duration_sec", "share_pct">>,
                                   rows |-> <<>>]
          /\ \A k \in DOMAIN con_out.summary : con_out.summary[k].num = 0
    /\ (vol_pc = "done" /\ VolNothingUsable) =>
          /\ vol_out.city_stats.columns # <<>> /\ vol_out.city_stats.rows = <<>>
          /\ vol_out.station_stats.columns # <<>> /\ vol_out.station_stats.rows = <<>>
          /\ vol_out.summary.network_mean_daily_hours.num = 0
          /\ vol_out.summary.network_std_daily_hours.square.num = 0
          /\ vol_out.summary.network_cv_pct.square.num = 0

(***************************************************************************)
(* build_utilization_metrics                                               *)
(* Rows of filtered carry the normalized date of started_at, uuid,         *)
(* city_name and duration_sec; rows of station_scope carry uuid and        *)
(* city_name. A selected end that is None is written NaT.                  *)
(***************************************************************************)
\* most rows of an explored filtered table
MaxUtRows == 2

\* half an hour or an hour of a station on a day, and one session of 25 hours
UtRowUniverse ==
    [date : {0, 2}, uuid : {"A", "B"}, city_name : {"Moscow", NaN},
     duration_sec : {1800, 3600}]
        \cup {[date |-> 0, uuid |-> "A", city_name |-> "Moscow", duration_sec |-> 90000]}

\* station scopes: none, one station, a station without city, two stations
\* of a city, a station listed twice
UtScopes ==
    {<<>>,
     <<[uuid |-> "A", city_name |-> "Moscow"]>>,
     <<[uuid |-> "C", city_name |-> NaN]>>,
     <<[uuid |-> "A", city_name |-> "Moscow"], [uuid |-> "C", city_name |-> "Moscow"]>>,
     <<[uuid |-> "A", city_name |-> "Moscow"], [uuid |-> "C", city_name |-> NaN]>>,
     <<[uuid |-> "A", city_name |-> "Moscow"], [uuid |-> "A", city_name |-> "Moscow"]>>}

\* selected_start, selected_end: none, one end, in order, one day, reversed
UtRanges == {<<NaT, NaT>>, <<0, NaT>>, <<0, 3>>, <<1, 1>>, <<3, 0>>}

UtColumns == <<"city", "busy_hours", "station_count", "capacity_hours", "utilization_pct">>

\* the sorted order of the city labels
UtCityRank(c) == IF c = "Moscow" THEN 1 ELSE 2

\* faulty variant of UtDays: the difference of the ends without the + 1
UtDaysExclusive(filtered, selected_start, selected_end) ==
    IF selected_start # NaT /\ selected_end # NaT
    THEN IF selected_end < selected_start
         THEN selected_start - selected_end
         ELSE selected_end - selected_start
    ELSE LET dates == {filtered[i] : i \in 1..Len(filtered)}
         IN  MaxDate(dates) - MinDate(dates)

\* days of lines 369-381 (filtered is not empty when an end is None)
UtDays(filtered, selected_start, selected_end) ==
    IF selected_start # NaT /\ selected_end # NaT
    THEN IF selected_end < selected_start
         THEN (selected_start - selected_end) + 1
         ELSE (selected_end - selected_start) + 1
    ELSE LET dates == {filtered[i] : i \in 1..Len(filtered)}
         IN  (MaxDate(dates) - MinDate(dates)) + 1

\* table["uuid"].nunique()
UuidNunique(t) == Nunique({t[i].uuid : i \in 1..Len(t)})

\* scope_station_count of lines 386-390
ScopeStationCount(filtered, station_scope) ==
    LET in_scope == IF station_scope # <<>> THEN UuidNunique(station_scope) ELSE 0
    IN  IF in_scope <= 0 /\ filtered # <<>> THEN UuidNunique(filtered) ELSE in_scope

\* faulty variant of GuardedPct: the division is carried out for a zero denominator too
UnguardedPct(busy_sec, capacity_hours) ==
    IF capacity_hours # 0
    THEN Frac(busy_sec * 100, SecPerHour * capacity_hours)
    ELSE [num |-> busy_sec, den |-> 0]

\* busy_hours / capacity_hours * 100.0, and 0.0 for a zero capacity
\* (line 392; lines 431-436, where inf and NaN are replaced)
GuardedPct(busy_sec, capacity_hours) ==
    IF capacity_hours # 0
    THEN Frac(busy_sec * 100, SecPerHour * capacity_hours)
    ELSE ZeroPct

\* the summary of lines 383-400
UtSummary(filtered, station_scope, days) ==
    LET busy_sec == SumDuration(filtered)
        scope_station_count == ScopeStationCount(filtered, station_scope)
        capacity_hours == IF days > 0 THEN scope_station_count * HoursPerDay * days ELSE 0
    IN  [busy_hours |-> Frac(busy_sec, SecPerHour),
         station_count |-> scope_station_count,
         days |-> days,
         capacity_hours |-> capacity_hours,
         utilization_pct |-> GuardedPct(busy_sec, capacity_hours)]

\* the rows of a set of city rows, largest utilization_pct first
RECURSIVE SortByUtilizationDesc(_)
SortByUtilizationDesc(S) ==
    IF S = {} THEN <<>>
    ELSE LET first == CHOOSE r \in S : \A o \in S :
                          \/ FracLt(o.utilization_pct, r.utilization_pct)
                          \/ /\ o.utilization_pct = r.utilization_pct
                             /\ UtCityRank(r.city) <= UtCityRank(o.city)
         IN  <<first>> \o SortByUtilizationDesc(S \ {first})

\* the city table of lines 405-440
UtCityTable(filtered, station_scope, days) ==
    LET cities == {FillCity(filtered[i].city_name) : i \in 1..Len(filtered)}
        busy_sec(c) == LET test(r) == FillCity(r.city_name) = c
                       IN  SumDuration(SelectSeq(filtered, test))
        source == IF station_scope = <<>> THEN filtered ELSE station_scope
        in_city(c) == LET test(r) == FillCity(r.city_name) = c IN SelectSeq(source, test)
        \* a city without row in stations_city gets fillna(0.0)
        station_count(c) == IF in_city(c) = <<>> THEN 0 ELSE UuidNunique(in_city(c))
        row(c) == [city |-> c,
                   busy_hours |-> Frac(busy_sec(c), SecPerHour),
                   station_count |-> station_count(c),
                   capacity_hours |-> station_count(c) * HoursPerDay * days,
                   utilization_pct |->
                       GuardedPct(busy_sec(c), station_count(c) * HoursPerDay * days)]
    IN  SortByUtilizationDesc({row(c) : c \in cities})

\* the summary of lines 354-360
UtZeroSummary ==
    [busy_hours |-> ZeroPct, station_count |-> 0, days |-> 0, capacity_hours |-> 0,
     utilization_pct |-> ZeroPct]

UtRest ==
    /\ ut_in = [filtered |-> <<>>, station_scope |-> <<>>,
                selected_start |-> NaT, selected_end |-> NaT]
    /\ ut_pc = "rest"
    /\ ut_out = [summary |-> UtZeroSummary, city |-> [columns |-> UtColumns, rows |-> <<>>]]

\* the call
UtInit ==
    /\ \E f \in SeqsUpTo(UtRowUniverse, MaxUtRows), sc \in UtScopes, rg \in UtRanges :
          ut_in = [filtered |-> f, station_scope |-> sc,
                   selected_start |-> rg[1], selected_end |-> rg[2]]
    /\ ut_pc = "start"
    /\ ut_out = [summary |-> UtZeroSummary, city |-> [columns |-> UtColumns, rows |-> <<>>]]

\* most rows of a filtered table that was not passed through the sidebar filter
MaxUtOpenRows == 2

\* closed intervals of an hour and open intervals (no duration) of two stations
UtOpenRowUniverse ==
    [date : {0, 2}, uuid : {"A", "B"}, city_name : {"Moscow", NaN},
     duration_sec : {3600, NaNSec}]

\* the call on a table that still holds its open intervals
UtInitOpen ==
    /\ \E f \in SeqsUpTo(UtOpenRowUniverse, MaxUtOpenRows),
          sc \in {<<>>, <<[uuid |-> "A", city_name |-> "Moscow"]>>},
          rg \in {<<NaT, NaT>>, <<0, 3>>} :
          ut_in = [filtered |-> f, station_scope |-> sc,
                   selected_start |-> rg[1], selected_end |-> rg[2]]
    /\ ut_pc = "start"
    /\ ut_out = [summary |-> UtZeroSummary, city |-> [columns |-> UtColumns, rows |-> <<>>]]

\* lines 375-376: an end is None and filtered is empty
UtReturnEmpty ==
    /\ ut_pc = "start"
    /\ ut_in.selected_start = NaT \/ ut_in.selected_end = NaT
    /\ ut_in.filtered = <<>>
    /\ ut_out' = [summary |-> UtZeroSummary, city |-> [columns |-> UtColumns, rows |-> <<>>]]
    /\ ut_pc' = "done"
    /\ UNCHANGED ut_in
    /\ UNCHANGED <<coreVars, extVars, hmVars, conVars, volVars, shVars, adVars, ftVars, cnVars>>

\* lines 369-374, 383-403: a selected range and an empty filtered
UtReturnSummary ==
    /\ ut_pc = "start"
    /\ ut_in.selected_start # NaT /\ ut_in.selected_end # NaT
    /\ ut_in.filtered = <<>>
    /\ LET days == UtDays(ut_in.filtered, ut_in.selected_start, ut_in.selected_end)
       IN  ut_out' = [summary |-> UtSummary(ut_in.filtered, ut_in.station_scope, days),
                      city |-> [columns |-> UtColumns, rows |-> <<>>]]
    /\ ut_pc' = "done"
    /\ UNCHANGED ut_in
    /\ UNCHANGED <<coreVars, extVars, hmVars, conVars, volVars, shVars, adVars, ftVars, cnVars>>

\* lines 369-440: summary and city table
UtReturn ==
    /\ ut_pc = "start"
    /\ ut_in.filtered # <<>>
    /\ LET days == UtDays(ut_in.filtered, ut_in.selected_start, ut_in.selected_end)
       IN  ut_out' = [summary |-> UtSummary(ut_in.filtered, ut_in.station_scope, days),
                      city |-> [columns |-> UtColumns,
                                rows |-> UtCityTable(ut_in.filtered, ut_in.station_scope,
                                                     days)]]
    /\ ut_pc' = "done"
    /\ UNCHANGED ut_in
    /\ UNCHANGED <<coreVars, extVars, hmVars, conVars, volVars, shVars, adVars, ftVars, cnVars>>

(***************************************************************************)
(* Claims about build_utilization_metrics                                  *)
(***************************************************************************)
\* the distinct stations of the scope and of the intervals handed in
UtScopeStations == {ut_in.station_scope[i].uuid : i \in 1..Len(ut_in.station_scope)}
UtObservedStations == {ut_in.filtered[i].uuid : i \in 1..Len(ut_in.filtered)}
UtObservedDates == {ut_in.filtered[i].date : i \in 1..Len(ut_in.filtered)}
UtBothEnds == ut_in.selected_start >= 0 /\ ut_in.selected_end >= 0

\* C15: capacity_hours = station_count * 24 * days and utilization_pct =
\* busy_hours / capacity_hours * 100, where station_count counts the distinct
\* stations of the scope (of the intervals when the scope is empty) and days
\* is the inclusive day count of the selected range when both ends are given,
\* else of the observed data span.
C15_CapacityAndUtilization ==
    (ut_pc = "done" /\ (UtBothEnds \/ ut_in.filtered # <<>>)) =>
        LET sm == ut_out.summary
            total_sec == SumDuration(ut_in.filtered)
        IN  /\ sm.station_count = IF UtScopeStations # {}
                                  THEN Cardinality(UtScopeStations)
                                  ELSE Cardinality(UtObservedStations)
            /\ UtBothEnds =>
                  sm.days = Abs(ut_in.selected_end - ut_in.selected_start) + 1
            /\ ~UtBothEnds =>
                  \E lo \in UtObservedDates, hi \in UtObservedDates :
                      /\ \A d \in UtObservedDates : lo <= d /\ d <= hi
                      /\ sm.days = (hi - lo) + 1
            /\ sm.capacity_hours = sm.station_count * 24 * sm.days
            /\ sm.busy_hours.num * 3600 = total_sec * sm.busy_hours.den
            /\ sm.capacity_hours > 0 =>
                  sm.utilization_pct.num * sm.capacity_hours * 3600
                      = 100 * total_sec * sm.utilization_pct.den

\* C15 witness: two stations in scope, a range of one day, two busy hours:
\* capacity 48 hours, utilization 2 / 48 * 100
C15_Witness ==
    /\ ut_pc = "done"
    /\ ut_in.selected_start = 1 /\ ut_in.selected_end = 1
    /\ ut_out.summary.station_count = 2
    /\ ut_out.summary.days = 1
    /\ ut_out.summary.busy_hours = [num |-> 2, den |-> 1]
    /\ ut_out.summary.capacity_hours = 48
    /\ ut_out.summary.utilization_pct = [num |-> 25, den |-> 6]

(***************************************************************************)
(* Claims about _concentration_for_key                                     *)
(***************************************************************************)
\* the value of a dimension in row i of the input, and the entities of the
\* dimension: the values that occur in a row with a duration
ConValue(dim, i) == IF dim = "station" THEN con_in[i].uuid ELSE con_in[i].product_id
ConEntities(dim) ==
    {ConValue(dim, i) : i \in {j \in 1..Len(con_in) : con_in[j].duration_sec >= 0}} \ {NaN}

\* the duration of entity e in the first n rows of the input
RECURSIVE ConDurationUpTo(_, _, _)
ConDurationUpTo(dim, e, n) ==
    IF n = 0 THEN 0
    ELSE ConDurationUpTo(dim, e, n - 1)
            + (IF ConValue(dim, n) = e /\ con_in[n].duration_sec >= 0
               THEN con_in[n].duration_sec ELSE 0)
ConDuration(dim, e) == ConDurationUpTo(dim, e, Len(con_in))

\* the sum of the durations, and of their squares, over a set of entities
RECURSIVE ConSumOver(_, _)
ConSumOver(dim, E) ==
    IF E = {} THEN 0
    ELSE LET e == CHOOSE x \in E : TRUE
         IN  ConDuration(dim, e) + ConSumOver(dim, E \ {e})
RECURSIVE ConSquaresOver(_, _)
ConSquaresOver(dim, E) ==
    IF E = {} THEN 0
    ELSE LET e == CHOOSE x \in E : TRUE
         IN  ConDuration(dim, e) * ConDuration(dim, e) + ConSquaresOver(dim, E \ {e})

\* the entities of E without the smallest ones, until ten (or fewer) are left
RECURSIVE ConKeepTen(_, _)
ConKeepTen(dim, E) ==
    IF Cardinality(E) <= 10 THEN E
    ELSE LET least == CHOOSE e \in E : \A o \in E : ConDuration(dim, e) <= ConDuration(dim, o)
         IN  ConKeepTen(dim, E \ {least})
ConLargestTen(dim) == ConKeepTen(dim, ConEntities(dim))

\* what is returned for a dimension
ConHhi(dim) ==
    IF dim = "station" THEN con_out.summary.station_hhi ELSE con_out.summary.product_hhi
ConTop10(dim) ==
    IF dim = "station" THEN con_out.summary.station_top10_share_pct
    ELSE con_out.summary.product_top10_share_pct

\* C16: for a dimension with total duration > 0, HHI = sum of the squared
\* share fractions * 10000 and top10_share = the sum of the ten largest share
\* percentages; one entity with all the duration gives HHI 10000; n entities
\* of equal duration give HHI 10000 / n and, for n <= 10, top10_share 100.
C16_HhiAndTop10 ==
    con_pc = "done" =>
        \A dim \in {"station", "product"} :
            LET E == ConEntities(dim)
                n == Cardinality(E)
                total == ConSumOver(dim, E)
            IN  total > 0 =>
                    /\ ConHhi(dim)
                           = FracMul(Frac(ConSquaresOver(dim, E), total * total),
                                     Frac(10000, 1))
                    /\ ConTop10(dim)
                           = Frac(100 * ConSumOver(dim, ConLargestTen(dim)), total)
                    /\ n = 1 => ConHhi(dim) = [num |-> 10000, den |-> 1]
                    /\ (\A e \in E, o \in E : ConDuration(dim, e) = ConDuration(dim, o)) =>
                           /\ ConHhi(dim).num * n = 10000 * ConHhi(dim).den
                           /\ n <= 10 => ConTop10(dim) = [num |-> 100, den |-> 1]

\* C16 witness: eleven stations of equal duration (HHI 10000 / 11, the ten
\* largest hold 1000 / 11 percent) over three products of unequal duration
C16_Witness ==
    /\ con_pc = "done"
    /\ Cardinality(ConEntities("station")) = 11
    /\ con_out.summary.station_hhi = [num |-> 10000, den |-> 11]
    /\ con_out.summary.station_top10_share_pct = [num |-> 1000, den |-> 11]
    /\ Cardinality(ConEntities("product")) = 3
    /\ con_out.summary.product_top10_share_pct = [num |-> 100, den |-> 1]
    /\ con_out.summary.product_hhi = [num |-> 410000, den |-> 121]

(***************************************************************************)
(* _product_window_share and build_product_share_wow_mom                   *)
(* Rows carry the normalized date of started_at, product_id and            *)
(* duration_sec.                                                           *)
(***************************************************************************)
\* most rows of an explored table
MaxShRows == 2

\* wow_days, mom_days
WowDays == 7
MomDays == 30

\* days around the borders of the 7- and 30-day windows that end on day 60
ShDates == {0, 30, 31, 53, 54, 60}
ShProducts == {"P1", "P2"}

\* an hour of a product on any of the days; a zero and a missing duration; a
\* missing product; a missing date
ShRowUniverse ==
    [date : ShDates, product_id : ShProducts, duration_sec : {3600}]
        \cup {[date |-> 60, product_id |-> "P1", duration_sec |-> 0],
              [date |-> 53, product_id |-> "P2", duration_sec |-> 0],
              [date |-> 60, product_id |-> "P1", duration_sec |-> NaNSec],
              [date |-> 60, product_id |-> NaN, duration_sec |-> 3600],
              [date |-> NaT, product_id |-> "P1", duration_sec |-> 3600]}

\* top_n: a cut to one row and the default
ShTopN == {1, 20}

ShColumns == <<"product_id", "duration_hours", "share_pct", "wow_delta_pp", "mom_delta_pp">>

\* the sorted order of the product ids
ProductRank(p) == IF p = "P1" THEN 1 ELSE IF p = "P2" THEN 2 ELSE 3

\* float NaN: what Series.map gives for a key that the series lacks
FloatNaN == [num |-> 0, den |-> 0]

\* the products of a table and the summed duration of one of them
ProductsOf(t) == {t[i].product_id : i \in 1..Len(t)}
ProductDuration(t, p) == LET test(r) == r.product_id = p IN SumDuration(SelectSeq(t, test))

\* _product_window_share: the series product -> share, as a set of entries
ProductWindowShare(base, start, end) ==
    LET in_window(r) == r.date >= start /\ r.date <= end
        window == SelectSeq(base, in_window)
        total == SumDuration(window)
    IN  IF window = <<>> THEN {}
        ELSE IF total <= 0 THEN {}
        ELSE {[product_id |-> p, share |-> Frac(ProductDuration(window, p) * 100, total)] :
                 p \in ProductsOf(window)}

\* column.map(series): the share of the product, NaN without entry
MapShare(series, p) ==
    IF \E e \in series : e.product_id = p
    THEN (CHOOSE e \in series : e.product_id = p).share
    ELSE FloatNaN

\* faulty variant of FillNaZero: a NaN stays
FillNaNot(x) == x

\* fillna(0.0)
FillNaZero(x) == IF x = FloatNaN THEN ZeroPct ELSE x

\* a - b of floats, NaN if one of them is
FloatSub(a, b) == IF a = FloatNaN \/ b = FloatNaN THEN FloatNaN ELSE FracSub(a, b)

\* base of lines 34-39
ShBase ==
    LET usable(r) == r.date # NaT /\ NotNa(r.product_id) /\ r.duration_sec # NaNSec
    IN  SelectSeq(sh_in.filtered, usable)

\* end_date and the window borders of lines 56-64
ShEndDate == MaxDate({ShBase[i] : i \in 1..Len(ShBase)})
ShBorders ==
    LET end_date == ShEndDate
        wow_current_start == end_date - (WowDays - 1)
        wow_prev_end == wow_current_start - 1
        wow_prev_start == wow_prev_end - (WowDays - 1)
        mom_current_start == end_date - (MomDays - 1)
        mom_prev_end == mom_current_start - 1
        mom_prev_start == mom_prev_end - (MomDays - 1)
    IN  [end_date |-> end_date,
         wow_current_start |-> wow_current_start, wow_prev_end |-> wow_prev_end,
         wow_prev_start |-> wow_prev_start,
         mom_current_start |-> mom_current_start, mom_prev_end |-> mom_prev_end,
         mom_prev_start |-> mom_prev_start]

\* the rows of a set of product rows, largest duration first
RECURSIVE SortByHoursDesc(_)
SortByHoursDesc(S) ==
    IF S = {} THEN <<>>
    ELSE LET first == CHOOSE r \in S : \A o \in S :
                          \/ FracLt(o.duration_hours, r.duration_hours)
                          \/ /\ o.duration_hours = r.duration_hours
                             /\ ProductRank(r.product_id) <= ProductRank(o.product_id)
         IN  <<first>> \o SortByHoursDesc(S \ {first})

\* per_product of lines 47-78: every product of base with its share and deltas
PerProduct ==
    LET total_duration == SumDuration(ShBase)
        b == ShBorders
        wow_current_share == ProductWindowShare(ShBase, b.wow_current_start, b.end_date)
        wow_prev_share == ProductWindowShare(ShBase, b.wow_prev_start, b.wow_prev_end)
        mom_current_share == ProductWindowShare(ShBase, b.mom_current_start, b.end_date)
        mom_prev_share == ProductWindowShare(ShBase, b.mom_prev_start, b.mom_prev_end)
    IN  {[product_id |-> p,
          duration_hours |-> Frac(ProductDuration(ShBase, p), SecPerHour),
          share_pct |-> Frac(ProductDuration(ShBase, p) * 100, total_duration),
          wow_delta_pp |-> FloatSub(FillNaZero(MapShare(wow_current_share, p)),
                                    FillNaZero(MapShare(wow_prev_share, p))),
          mom_delta_pp |-> FloatSub(FillNaZero(MapShare(mom_current_share, p)),
                                    FillNaZero(MapShare(mom_prev_share, p)))] :
             p \in ProductsOf(ShBase)}

ShEmpty == [per_product |-> {}, borders |-> <<>>,
            table |-> [columns |-> ShColumns, rows |-> <<>>]]

ShRest ==
    /\ sh_in = [filtered |-> <<>>, top_n |-> 20]
    /\ sh_pc = "rest"
    /\ sh_out = ShEmpty

\* the call: any table of at most MaxShRows rows
ShInit ==
    /\ sh_in \in [filtered : SeqsUpTo(ShRowUniverse, MaxShRows), top_n : ShTopN]
    /\ sh_pc = "start"
    /\ sh_out = ShEmpty

\* lines 31-45: nothing usable, or no duration at all
ShReturnEmpty ==
    /\ sh_pc = "start"
    /\ ShBase = <<>> \/ SumDuration(ShBase) <= 0
    /\ sh_out' = ShEmpty
    /\ sh_pc' = "done"
    /\ UNCHANGED sh_in
    /\ UNCHANGED <<coreVars, extVars, hmVars, conVars, volVars, utVars, adVars, ftVars, cnVars>>

\* lines 47-80: per_product, the deltas, the cut to top_n
ShReturn ==
    /\ sh_pc = "start"
    /\ ShBase # <<>> /\ SumDuration(ShBase) > 0
    /\ sh_out' = [per_product |-> PerProduct, borders |-> ShBorders,
                  table |-> [columns |-> ShColumns,
                             rows |-> HeadRows(SortByHoursDesc(PerProduct), sh_in.top_n)]]
    /\ sh_pc' = "done"
    /\ UNCHANGED sh_in
    /\ UNCHANGED <<coreVars, extVars, hmVars, conVars, volVars, utVars, adVars, ftVars, cnVars>>

(***************************************************************************)
(* Claims about build_product_share_wow_mom                                *)
(***************************************************************************)
\* the rows of the input that are counted, and the products among them
ShUsable ==
    {i \in 1..Len(sh_in.filtered) :
        /\ sh_in.filtered[i].date >= 0
        /\ sh_in.filtered[i].product_id \in {"P1", "P2"}
        /\ sh_in.filtered[i].duration_sec >= 0}
ShAnchor == CHOOSE d \in {sh_in.filtered[i].date : i \in ShUsable} :
                \A i \in ShUsable : sh_in.filtered[i].date <= d

\* product p has no counted duration on the days lo..hi before the anchor
ShAbsent(p, lo, hi) ==
    \A i \in ShUsable :
        (/\ sh_in.filtered[i].product_id = p
         /\ ShAnchor - sh_in.filtered[i].date >= lo
         /\ ShAnchor - sh_in.filtered[i].date <= hi) => sh_in.filtered[i].duration_sec = 0

\* the share of product p on the days lo..hi before the anchor
ShShareIn(p, lo, hi) ==
    LET in_window == {i \in ShUsable : /\ ShAnchor - sh_in.filtered[i].date >= lo
                                       /\ ShAnchor - sh_in.filtered[i].date <= hi}
        of_p == {i \in in_window : sh_in.filtered[i].product_id = p}
        sum[S \in SUBSET in_window] ==
            IF S = {} THEN 0
            ELSE LET i == CHOOSE x \in S : TRUE
                 IN  sh_in.filtered[i].duration_sec + sum[S \ {i}]
    IN  IF sum[in_window] = 0 THEN ZeroPct ELSE Frac(sum[of_p] * 100, sum[in_window])

\* C17: with a total duration > 0 the share_pct of all products of the full
\* grouping sum to 100, and a product absent from a trailing window enters
\* that window's delta with share 0, never with a missing value.
C17_SharesSumAndAbsentIsZero ==
    (sh_pc = "done" /\ \E i \in ShUsable : sh_in.filtered[i].duration_sec > 0) =>
        /\ sh_out.per_product # {}
        /\ LET rows == SortByHoursDesc(sh_out.per_product)
           IN  FracSum([i \in 1..Len(rows) |-> rows[i].share_pct]) = [num |-> 100, den |-> 1]
        /\ \A r \in sh_out.per_product :
              /\ r.wow_delta_pp.den > 0
              /\ r.mom_delta_pp.den > 0
              /\ r.wow_delta_pp = FracSub(ShShareIn(r.product_id, 0, 6),
                                          ShShareIn(r.product_id, 7, 13))
              /\ r.mom_delta_pp = FracSub(ShShareIn(r.product_id, 0, 29),
                                          ShShareIn(r.product_id, 30, 59))
              /\ ShAbsent(r.product_id, 0, 6) =>
                    r.wow_delta_pp = FracSub(ZeroPct, ShShareIn(r.product_id, 7, 13))
              /\ ShAbsent(r.product_id, 7, 13) =>
                    r.wow_delta_pp = ShShareIn(r.product_id, 0, 6)

\* C17 witness: P1 only in the current week, P2 only in the week before; the
\* table is cut to one row while the full grouping holds both products
C17_Witness ==
    /\ sh_pc = "done"
    /\ sh_in.top_n = 1
    /\ Len(sh_out.table.rows) = 1
    /\ \E r1 \in sh_out.per_product, r2 \in sh_out.per_product :
          /\ r1.product_id = "P1" /\ r2.product_id = "P2"
          /\ r1.share_pct = [num |-> 50, den |-> 1]
          /\ r1.wow_delta_pp = [num |-> 100, den |-> 1]
          /\ r2.wow_delta_pp = [num |-> -100, den |-> 1]
          /\ r2.mom_delta_pp = [num |-> 50, den |-> 1]

(***************************************************************************)
(* build_product_adoption                                                  *)
(* Rows carry the normalized date of started_at, product_id and uuid.      *)
(***************************************************************************)
\* most rows of an explored table
MaxAdRows == 3

\* days on both sides of the borders of the 7- and 30-day windows that end on day 60
AdDates == {30, 31, 53, 54, 60}
AdStations == {"A", "B"}
AdProducts == {"P1", "P2"}

\* usable rows, and one row for each missing value
AdRowUniverse ==
    [date : AdDates, product_id : AdProducts, uuid : AdStations]
        \cup {[date |-> NaT, product_id |-> "P1", uuid |-> "A"],
              [date |-> 60, product_id |-> NaN, uuid |-> "B"],
              [date |-> 60, product_id |-> "P2", uuid |-> NaN]}

\* top_n as the view passes it
AdTopN == 20

AdColumns ==
    <<"product_id", "new_stations_7d", "new_stations_30d",
      "adoption_rate_7d_pct", "adoption_rate_30d_pct">>

\* base of lines 94-99
AdBase ==
    LET usable(r) == r.date # NaT /\ NotNa(r.product_id) /\ NotNa(r.uuid)
        kept == SelectSeq(ad_in, usable)
    IN  {kept[i] : i \in 1..Len(kept)}

\* faulty variant of FirstDate: the latest day of the pair
LastDate(base, p, u) ==
    MaxDate({r \in base : r.product_id = p /\ r.uuid = u})

\* first_seen: groupby(["product_id", "uuid"])["date"].min()
FirstDate(base, p, u) ==
    MinDate({r \in base : r.product_id = p /\ r.uuid = u})

\* new_7d / new_30d: the stations of a product first seen on or after start
NewStations(base, p, start) ==
    Cardinality({u \in {r.uuid : r \in {x \in base : x.product_id = p}} :
                    FirstDate(base, p, u) >= start})

\* faulty variant of ActiveStations: only the stations of the last day count
ActiveStationsLastDay(base, start) ==
    Nunique({r.uuid : r \in {x \in base : x.date = MaxDate(base)}})

\* active_7d / active_30d
ActiveStations(base, start) == Nunique({r.uuid : r \in {x \in base : x.date >= start}})

\* the rows of a set of adoption rows, largest new_stations_30d first, then
\* largest new_stations_7d
RECURSIVE SortByNewDesc(_)
SortByNewDesc(S) ==
    IF S = {} THEN <<>>
    ELSE LET first == CHOOSE r \in S : \A o \in S :
                          \/ r.new_stations_30d > o.new_stations_30d
                          \/ /\ r.new_stations_30d = o.new_stations_30d
                             /\ r.new_stations_7d > o.new_stations_7d
                          \/ /\ r.new_stations_30d = o.new_stations_30d
                             /\ r.new_stations_7d = o.new_stations_7d
                             /\ ProductRank(r.product_id) <= ProductRank(o.product_id)
         IN  <<first>> \o SortByNewDesc(S \ {first})

\* all_products of lines 103-140
AllProducts ==
    LET end_date == MaxDate(AdBase)
        start_7d == end_date - 6
        start_30d == end_date - 29
        active_7d == ActiveStations(AdBase, start_7d)
        active_30d == ActiveStations(AdBase, start_30d)
    IN  {[product_id |-> p,
          new_stations_7d |-> NewStations(AdBase, p, start_7d),
          new_stations_30d |-> NewStations(AdBase, p, start_30d),
          adoption_rate_7d_pct |->
              IF active_7d # 0 THEN Pct(NewStations(AdBase, p, start_7d), active_7d)
              ELSE ZeroPct,
          adoption_rate_30d_pct |->
              IF active_30d # 0 THEN Pct(NewStations(AdBase, p, start_30d), active_30d)
              ELSE ZeroPct] : p \in {r.product_id : r \in AdBase}}

AdEmpty == [columns |-> AdColumns, rows |-> <<>>]

AdRest ==
    /\ ad_in = <<>>
    /\ ad_pc = "rest"
    /\ ad_out = AdEmpty

\* the call: any table of at most MaxAdRows rows
AdInit ==
    /\ ad_in \in SeqsUpTo(AdRowUniverse, MaxAdRows)
    /\ ad_pc = "start"
    /\ ad_out = AdEmpty

\* lines 91-101
AdReturnEmpty ==
    /\ ad_pc = "start"
    /\ AdBase = {}
    /\ ad_out' = AdEmpty
    /\ ad_pc' = "done"
    /\ UNCHANGED ad_in
    /\ UNCHANGED <<coreVars, extVars, hmVars, conVars, volVars, utVars, shVars, ftVars, cnVars>>

\* lines 103-146
AdReturn ==
    /\ ad_pc = "start"
    /\ AdBase # {}
    /\ ad_out' = [columns |-> AdColumns,
                  rows |-> HeadRows(SortByNewDesc(AllProducts), AdTopN)]
    /\ ad_pc' = "done"
    /\ UNCHANGED ad_in
    /\ UNCHANGED <<coreVars, extVars, hmVars, conVars, volVars, utVars, shVars, ftVars, cnVars>>

(***************************************************************************)
(* Claims about build_product_adoption                                     *)
(***************************************************************************)
\* the rows of the input with a date, a product and a station
AdUsable ==
    {i \in 1..Len(ad_in) : /\ ad_in[i].date >= 0
                           /\ ad_in[i].product_id \in AdProducts
                           /\ ad_in[i].uuid \in AdStations}
AdAnchor == CHOOSE d \in {ad_in[i].date : i \in AdUsable} : \A i \in AdUsable : ad_in[i].date <= d

\* the stations whose earliest day with product p is among the last n days
AdNewIn(p, n) ==
    {u \in AdStations :
        /\ \E i \in AdUsable : ad_in[i].product_id = p /\ ad_in[i].uuid = u
        /\ \A i \in AdUsable : (ad_in[i].product_id = p /\ ad_in[i].uuid = u)
                                   => AdAnchor - ad_in[i].date < n}

\* the stations with a row of any product among the last n days
AdActiveIn(n) == {u \in AdStations : \E i \in AdUsable : /\ ad_in[i].uuid = u
                                                         /\ AdAnchor - ad_in[i].date < n}

\* C18: for every product new_stations_7d (30d) counts the stations whose
\* earliest day with the product lies in the trailing 7 (30) day window that
\* ends at the anchor; the adoption rate is that count over the distinct
\* stations active with any product in the window, times 100.
C18_AdoptionCountsAndRates ==
    (ad_pc = "done" /\ AdUsable # {}) =>
        \A p \in {ad_in[i].product_id : i \in AdUsable} :
            \E k \in 1..Len(ad_out.rows) :
                LET row == ad_out.rows[k]
                IN  /\ row.product_id = p
                    /\ row.new_stations_7d = Cardinality(AdNewIn(p, 7))
                    /\ row.new_stations_30d = Cardinality(AdNewIn(p, 30))
                    /\ row.adoption_rate_7d_pct
                           = Frac(100 * Cardinality(AdNewIn(p, 7)), Cardinality(AdActiveIn(7)))
                    /\ row.adoption_rate_30d_pct
                           = Frac(100 * Cardinality(AdNewIn(p, 30)), Cardinality(AdActiveIn(30)))

\* C18 witness: station A has P1 before and inside the 7-day window, station
\* B starts P1 inside it: one new station of two active ones
C18_Witness ==
    /\ ad_pc = "done"
    /\ Len(ad_in) = 3
    /\ \A i \in 1..3 : ad_in[i].product_id = "P1"
    /\ ad_in[1] = [date |-> 53, product_id |-> "P1", uuid |-> "A"]
    /\ ad_in[2].uuid = "A" /\ ad_in[2].date = 60
    /\ ad_in[3].uuid = "B" /\ ad_in[3].date = 54
    /\ Len(ad_out.rows) = 1
    /\ ad_out.rows[1].new_stations_7d = 1
    /\ ad_out.rows[1].new_stations_30d = 2
    /\ ad_out.rows[1].adoption_rate_7d_pct = [num |-> 50, den |-> 1]
    /\ ad_out.rows[1].adoption_rate_30d_pct = [num |-> 100, den |-> 1]

\* C30: in every row new_stations_7d <= new_stations_30d, each count is at
\* most the number of distinct stations active in the same window, and both
\* adoption rates lie in [0, 100].
C30_AdoptionCountsBounded ==
    (ad_pc = "done" /\ AdUsable # {}) =>
        \A k \in 1..Len(ad_out.rows) :
            LET row == ad_out.rows[k]
                hundred == [num |-> 100, den |-> 1]
            IN  /\ 0 <= row.new_stations_7d
                /\ row.new_stations_7d <= row.new_stations_30d
                /\ row.new_stations_7d <= Cardinality(AdActiveIn(7))
                /\ row.new_stations_30d <= Cardinality(AdActiveIn(30))
                /\ row.adoption_rate_7d_pct.den > 0
                /\ row.adoption_rate_30d_pct.den > 0
                /\ ~FracLt(row.adoption_rate_7d_pct, ZeroPct)
                /\ ~FracLt(hundred, row.adoption_rate_7d_pct)
                /\ ~FracLt(row.adoption_rate_30d_pct, ZeroPct)
                /\ ~FracLt(hundred, row.adoption_rate_30d_pct)

\* C30 witness: a product new on one station within 30 but not within 7
\* days, while two stations are active in the 30 days: rates 0 and 50
C30_Witness ==
    /\ ad_pc = "done"
    /\ Cardinality(AdActiveIn(30)) = 2
    /\ \E k \in 1..Len(ad_out.rows) :
          /\ ad_out.rows[k].new_stations_7d = 0
          /\ ad_out.rows[k].new_stations_30d = 1
          /\ ad_out.rows[k].adoption_rate_7d_pct = ZeroPct
          /\ ad_out.rows[k].adoption_rate_30d_pct = [num |-> 50, den |-> 1]

(***************************************************************************)
(* build_free_trial_impact                                                 *)
(* Rows carry the normalized date of started_at, duration_sec and the      *)
(* free_trial flag. A flag is a number num / den, NaN (den = 0), or a      *)
(* text.                                                                   *)
(***************************************************************************)
\* most rows of an explored table
MaxFtRows == 3

\* the flags 0 and 1 that the station table stores
FlagZero == [num |-> 0, den |-> 1, text |-> ""]
FlagOne == [num |-> 1, den |-> 1, text |-> ""]
\* other numbers: 2, -1, 1.5, 0.5; a missing flag; a text that is no number
FtOtherFlags ==
    {[num |-> 2, den |-> 1, text |-> ""], [num |-> -1, den |-> 1, text |-> ""],
     [num |-> 3, den |-> 2, text |-> ""], [num |-> 1, den |-> 2, text |-> ""],
     [num |-> 0, den |-> 0, text |-> ""], [num |-> 0, den |-> 0, text |-> "yes"]}

\* days on both sides of the borders of the two 7-day windows that end on day 60
FtDates == {46, 47, 53, 54, 60}

\* an hour with flag 0 or 1 on any day; an hour with another flag; a zero
\* and a missing duration; a missing date
FtRowUniverse ==
    [date : FtDates, duration_sec : {3600}, free_trial : {FlagZero, FlagOne}]
        \cup [date : {60}, duration_sec : {3600}, free_trial : FtOtherFlags]
        \cup [date : {53}, duration_sec : {0, NaNSec}, free_trial : {FlagZero, FlagOne}]
        \cup {[date |-> NaT, duration_sec |-> 3600, free_trial |-> FlagOne]}

FtColumns == <<"date", "free_trial_hours", "paid_hours", "total_hours", "free_trial_share_pct">>

\* pd.to_numeric(..., errors="coerce"): a text that is no number becomes NaN
ToNumeric(flag) == IF flag.text # "" THEN FloatNaN ELSE [num |-> flag.num, den |-> flag.den]

\* astype(int) of a float: the fraction part is cut off
AsTypeInt(x) == IF x.num >= 0 THEN x.num \div x.den ELSE -((-x.num) \div x.den)

\* is_free_trial of lines 177-178
IsFreeTrial(flag) == AsTypeInt(FillNaZero(ToNumeric(flag))) = 1

\* base of lines 168-173
FtBase ==
    LET usable(r) == r.date # NaT /\ r.duration_sec # NaNSec
    IN  SelectSeq(ft_in, usable)

\* free / total * 100.0: NaN for 0 / 0
RawPct(free_sec, total_sec) ==
    IF total_sec = 0 THEN FloatNaN ELSE Frac(free_sec * 100, total_sec)

\* the seconds of the rows of a table that are (are not) free trial
FreeSec(t) == LET test(r) == IsFreeTrial(r.free_trial) IN SumDuration(SelectSeq(t, test))
PaidSec(t) == LET test(r) == ~IsFreeTrial(r.free_trial) IN SumDuration(SelectSeq(t, test))

\* daily of lines 180-198: one row per date of base, in the order of the dates
Daily ==
    LET dates == {FtBase[i].date : i \in 1..Len(FtBase)}
        on(d) == LET test(r) == r.date = d IN SelectSeq(FtBase, test)
        row(d) == [date |-> d,
                   free_trial_hours |-> Frac(FreeSec(on(d)), SecPerHour),
                   paid_hours |-> Frac(PaidSec(on(d)), SecPerHour),
                   total_hours |-> FracAdd(Frac(FreeSec(on(d)), SecPerHour),
                                           Frac(PaidSec(on(d)), SecPerHour)),
                   free_trial_share_pct |->
                       FillNaZero(RawPct(FreeSec(on(d)), FreeSec(on(d)) + PaidSec(on(d))))]
        sorted[S \in SUBSET dates] ==
            IF S = {} THEN <<>>
            ELSE LET d == CHOOSE x \in S : \A y \in S : x <= y
                 IN  <<row(d)>> \o sorted[S \ {d}]
    IN  sorted[dates]

\* the window borders of lines 204-207
FtBorders ==
    LET end_date == MaxDate({FtBase[i] : i \in 1..Len(FtBase)})
        current_start == end_date - 6
        prev_end == current_start - 1
        prev_start == prev_end - 6
    IN  [end_date |-> end_date, current_start |-> current_start,
         prev_end |-> prev_end, prev_start |-> prev_start]

\* the summary of lines 200-229
FtSummary ==
    LET b == FtBorders
        in_current(r) == r.date >= b.current_start
        in_prev(r) == r.date >= b.prev_start /\ r.date <= b.prev_end
        current_window == SelectSeq(FtBase, in_current)
        prev_window == SelectSeq(FtBase, in_prev)
        share(t) == IF SumDuration(t) # 0 THEN Frac(FreeSec(t) * 100, SumDuration(t))
                    ELSE ZeroPct
    IN  [busy_hours_total |-> Frac(SumDuration(FtBase), SecPerHour),
         busy_hours_free_trial |-> Frac(FreeSec(FtBase), SecPerHour),
         free_trial_share_pct |-> share(FtBase),
         free_trial_share_delta_7d_pp |-> FracSub(share(current_window), share(prev_window))]

\* the summary of lines 152-157
FtZeroSummary ==
    [busy_hours_total |-> ZeroPct, busy_hours_free_trial |-> ZeroPct,
     free_trial_share_pct |-> ZeroPct, free_trial_share_delta_7d_pp |-> ZeroPct]

FtEmpty == [summary |-> FtZeroSummary, borders |-> <<>>,
            daily |-> [columns |-> FtColumns, rows |-> <<>>]]

FtRest ==
    /\ ft_in = <<>>
    /\ ft_pc = "rest"
    /\ ft_out = FtEmpty

\* the call: any table of at most MaxFtRows rows
FtInit ==
    /\ ft_in \in SeqsUpTo(FtRowUniverse, MaxFtRows)
    /\ ft_pc = "start"
    /\ ft_out = FtEmpty

\* lines 165-175
FtReturnEmpty ==
    /\ ft_pc = "start"
    /\ FtBase = <<>>
    /\ ft_out' = FtEmpty
    /\ ft_pc' = "done"
    /\ UNCHANGED ft_in
    /\ UNCHANGED <<coreVars, extVars, hmVars, conVars, volVars, utVars, shVars, adVars, cnVars>>

\* lines 177-230
FtReturn ==
    /\ ft_pc = "start"
    /\ FtBase # <<>>
    /\ ft_out' = [summary |-> FtSummary, borders |-> FtBorders,
                  daily |-> [columns |-> FtColumns, rows |-> Daily]]
    /\ ft_pc' = "done"
    /\ UNCHANGED ft_in
    /\ UNCHANGED <<coreVars, extVars, hmVars, conVars, volVars, utVars, shVars, adVars, cnVars>>

(***************************************************************************)
(* Claims about build_free_trial_impact                                    *)
(***************************************************************************)
\* the rows of the input with a date and a duration
FtUsable == {i \in 1..Len(ft_in) : ft_in[i].date >= 0 /\ ft_in[i].duration_sec >= 0}

\* the flag of row i is a number and that number is 1
FtFlagIsOne(i) ==
    /\ ft_in[i].free_trial.text = ""
    /\ ft_in[i].free_trial.den > 0
    /\ ft_in[i].free_trial.num = ft_in[i].free_trial.den

\* the seconds of day d whose flag is (is not) exactly 1
FtSecOfDay(d, one) ==
    LET rows == {i \in FtUsable : ft_in[i].date = d /\ (FtFlagIsOne(i) <=> one)}
        sum[S \in SUBSET rows] ==
            IF S = {} THEN 0
            ELSE LET i == CHOOSE x \in S : TRUE IN ft_in[i].duration_sec + sum[S \ {i}]
    IN  sum[rows]

\* C19: a duration counts as free-trial hours iff the numeric value of the
\* free_trial flag is exactly 1; every other number (0, negative, above 1,
\* between the integers) and every missing or non-numeric flag counts as
\* paid hours.
C19_FreeTrialIffFlagIsOne ==
    ft_pc = "done" =>
        \A k \in 1..Len(ft_out.daily.rows) :
            LET row == ft_out.daily.rows[k]
            IN  /\ row.free_trial_hours = Frac(FtSecOfDay(row.date, TRUE), 3600)
                /\ row.paid_hours = Frac(FtSecOfDay(row.date, FALSE), 3600)

(***************************************************************************)
(* build_product_cannibalization                                           *)
(* Rows carry the normalized date of started_at, product_id and            *)
(* duration_sec; the tables explored are in the order of the dates and     *)
(* hold no row twice.                                                      *)
(***************************************************************************)
\* most rows of an explored table
MaxCnRows == 4

\* lookback_days and top_n as the view passes them
CnLookbackDays == 7
CnTopN == 20

CnProducts == {"P1", "P2", "P3", "P4"}

\* half an hour or an hour of any product in the previous week (day 53) or
\* in the current one (day 60); rows next to the borders of the two weeks;
\* rows with a missing value
CnRowUniverse ==
    [date : {53, 60}, product_id : CnProducts, duration_sec : {1800, 3600}]
        \cup [date : {46, 47, 54}, product_id : {"P1"}, duration_sec : {3600}]
        \cup {[date |-> NaT, product_id |-> "P1", duration_sec |-> 3600],
              [date |-> 60, product_id |-> NaN, duration_sec |-> 3600],
              [date |-> 60, product_id |-> "P2", duration_sec |-> NaNSec]}

\* the sorted order of the product ids
CnProductRank(p) ==
    CASE p = "P1" -> 1 [] p = "P2" -> 2 [] p = "P3" -> 3 [] p = "P4" -> 4 [] OTHER -> 5

\* the subsets of at most n elements of the set S
RECURSIVE SetsUpTo(_, _)
SetsUpTo(S, n) ==
    IF n = 0 THEN {{}}
    ELSE LET smaller == SetsUpTo(S, n - 1)
         IN  smaller \cup {T \cup {x} : T \in smaller, x \in S}

\* the rows of a set as a table in the order of date, product and duration
RECURSIVE TableOf(_)
TableOf(S) ==
    IF S = {} THEN <<>>
    ELSE LET first == CHOOSE r \in S : \A o \in S :
                          \/ r.date < o.date
                          \/ /\ r.date = o.date
                             /\ CnProductRank(r.product_id) < CnProductRank(o.product_id)
                          \/ /\ r.date = o.date
                             /\ r.product_id = o.product_id
                             /\ r.duration_sec <= o.duration_sec
         IN  <<first>> \o TableOf(S \ {first})

ShiftColumns == <<"product_id", "current_share_pct", "previous_share_pct", "delta_pp">>
PairColumns ==
    <<"loser_product_id", "gainer_product_id", "loser_delta_pp", "gainer_delta_pp",
      "compensation_pct">>

\* base of lines 299-303
CnBase ==
    LET usable(r) == r.date # NaT /\ NotNa(r.product_id) /\ r.duration_sec # NaNSec
    IN  SelectSeq(cn_in, usable)

\* faulty variant of CnBorders: the previous window ends on the day the current one starts
CnBordersOverlap ==
    LET end_date == MaxDate({CnBase[i] : i \in 1..Len(CnBase)})
        current_start == end_date - Max2(CnLookbackDays - 1, 0)
        previous_end == current_start
        previous_start == previous_end - Max2(CnLookbackDays - 1, 0)
    IN  [end_date |-> end_date, current_start |-> current_start,
         previous_end |-> previous_end, previous_start |-> previous_start]

\* the window borders of lines 307-310
CnBorders ==
    LET end_date == MaxDate({CnBase[i] : i \in 1..Len(CnBase)})
        current_start == end_date - Max2(CnLookbackDays - 1, 0)
        previous_end == current_start - 1
        previous_start == previous_end - Max2(CnLookbackDays - 1, 0)
    IN  [end_date |-> end_date, current_start |-> current_start,
         previous_end |-> previous_end, previous_start |-> previous_start]

\* shift of lines 312-319, before it is sorted: one row per product of the
\* two window series
ShiftRows ==
    LET b == CnBorders
        share_current == ProductWindowShare(CnBase, b.current_start, b.end_date)
        share_previous == ProductWindowShare(CnBase, b.previous_start, b.previous_end)
        product_ids == {e.product_id : e \in share_current \cup share_previous}
    IN  {[product_id |-> p,
          current_share_pct |-> FillNaZero(MapShare(share_current, p)),
          previous_share_pct |-> FillNaZero(MapShare(share_previous, p)),
          delta_pp |-> FracSub(FillNaZero(MapShare(share_current, p)),
                               FillNaZero(MapShare(share_previous, p)))] : p \in product_ids}

\* sort_values("delta_pp", ascending=True): smallest delta first, equal
\* deltas in the order of the product ids
RECURSIVE SortByDeltaAsc(_)
SortByDeltaAsc(S) ==
    IF S = {} THEN <<>>
    ELSE LET first == CHOOSE r \in S : \A o \in S :
                          \/ FracLt(r.delta_pp, o.delta_pp)
                          \/ /\ r.delta_pp = o.delta_pp
                             /\ CnProductRank(r.product_id) <= CnProductRank(o.product_id)
         IN  <<first>> \o SortByDeltaAsc(S \ {first})

\* sort_values("delta_pp", ascending=False): largest delta first, equal
\* deltas in the order of the product ids
RECURSIVE SortByDeltaDesc(_)
SortByDeltaDesc(S) ==
    IF S = {} THEN <<>>
    ELSE LET first == CHOOSE r \in S : \A o \in S :
                          \/ FracLt(o.delta_pp, r.delta_pp)
                          \/ /\ r.delta_pp = o.delta_pp
                             /\ CnProductRank(r.product_id) <= CnProductRank(o.product_id)
         IN  <<first>> \o SortByDeltaDesc(S \ {first})

\* gainers of line 322
Gainers(shift) == SortByDeltaDesc({r \in shift : r.delta_pp.num > 0})

\* faulty variant of Losers: the smallest loss first
LosersSmallestFirst(shift) == SortByDeltaDesc({r \in shift : r.delta_pp.num < 0})

\* losers of line 323
Losers(shift) == SortByDeltaAsc({r \in shift : r.delta_pp.num < 0})

\* float abs and min
FracAbs(x) == [num |-> Abs(x.num), den |-> x.den]
FracMin(a, b) == IF FracLt(b, a) THEN b ELSE a

\* compensation of line 332
Compensation(gained, lost) ==
    IF lost.num # 0
    THEN FracMul(FracMul(FracMin(gained, lost), Frac(lost.den, lost.num)), Frac(100, 1))
    ELSE ZeroPct

\* pairs of lines 324-341
Pairs(shift) ==
    LET gainer_rows == HeadRows(Gainers(shift), CnTopN)
        loser_rows == HeadRows(Losers(shift), CnTopN)
        n == IF Len(loser_rows) < Len(gainer_rows) THEN Len(loser_rows) ELSE Len(gainer_rows)
    IN  [idx \in 1..n |->
            [loser_product_id |-> loser_rows[idx].product_id,
             gainer_product_id |-> gainer_rows[idx].product_id,
             loser_delta_pp |-> loser_rows[idx].delta_pp,
             gainer_delta_pp |-> gainer_rows[idx].delta_pp,
             compensation_pct |-> Compensation(gainer_rows[idx].delta_pp,
                                               FracAbs(loser_rows[idx].delta_pp))]]

\* sort_values("delta_pp", key=abs, ascending=False)
RECURSIVE SortByAbsDeltaDesc(_)
SortByAbsDeltaDesc(S) ==
    IF S = {} THEN <<>>
    ELSE LET first == CHOOSE r \in S : \A o \in S :
                          \/ FracLt(FracAbs(o.delta_pp), FracAbs(r.delta_pp))
                          \/ /\ FracAbs(o.delta_pp) = FracAbs(r.delta_pp)
                             /\ \/ FracLt(r.delta_pp, o.delta_pp)
                                \/ /\ r.delta_pp = o.delta_pp
                                   /\ CnProductRank(r.product_id) <= CnProductRank(o.product_id)
         IN  <<first>> \o SortByAbsDeltaDesc(S \ {first})

CnEmpty == [shift |-> [columns |-> ShiftColumns, rows |-> <<>>],
            pairs |-> [columns |-> PairColumns, rows |-> <<>>],
            borders |-> <<>>]

CnRest ==
    /\ cn_in = <<>>
    /\ cn_pc = "rest"
    /\ cn_out = CnEmpty

\* the call: any table of at most MaxCnRows rows
CnInit ==
    /\ cn_in \in {TableOf(S) : S \in SetsUpTo(CnRowUniverse, MaxCnRows)}
    /\ cn_pc = "start"
    /\ cn_out = CnEmpty

\* lines 296-305
CnReturnEmpty ==
    /\ cn_pc = "start"
    /\ CnBase = <<>>
    /\ cn_out' = CnEmpty
    /\ cn_pc' = "done"
    /\ UNCHANGED cn_in
    /\ UNCHANGED <<coreVars, extVars, hmVars, conVars, volVars, utVars, shVars, adVars, ftVars>>

\* lines 307-345
CnReturn ==
    /\ cn_pc = "start"
    /\ CnBase # <<>>
    /\ cn_out' = [shift |-> [columns |-> ShiftColumns,
                             rows |-> HeadRows(SortByAbsDeltaDesc(ShiftRows), CnTopN)],
                  pairs |-> [columns |-> PairColumns, rows |-> Pairs(ShiftRows)],
                  borders |-> CnBorders]
    /\ cn_pc' = "done"
    /\ UNCHANGED cn_in
    /\ UNCHANGED <<coreVars, extVars, hmVars, conVars, volVars, utVars, shVars, adVars, ftVars>>

(***************************************************************************)
(* Claims about build_product_cannibalization                              *)
(***************************************************************************)
\* the rows of the input that are counted
CnUsable ==
    {i \in 1..Len(cn_in) : /\ cn_in[i].date >= 0
                           /\ cn_in[i].product_id \in CnProducts
                           /\ cn_in[i].duration_sec >= 0}
CnAnchor == CHOOSE d \in {cn_in[i].date : i \in CnUsable} : \A i \in CnUsable : cn_in[i].date <= d

\* the counted seconds of the products in P on the days lo..hi before the anchor
CnWindowSec(P, lo, hi) ==
    LET usable == CnUsable
        anchor == CnAnchor
    IN  SumInts([i \in 1..Len(cn_in) |->
                    IF /\ i \in usable
                       /\ cn_in[i].product_id \in P
                       /\ anchor - cn_in[i].date >= lo
                       /\ anchor - cn_in[i].date <= hi
                    THEN cn_in[i].duration_sec ELSE 0])

\* the share of product p on the days lo..hi before the anchor
CnShareIn(p, lo, hi) ==
    LET all == CnWindowSec(CnProducts, lo, hi)
    IN  IF all = 0 THEN ZeroPct ELSE Frac(CnWindowSec({p}, lo, hi) * 100, all)

\* for every product the change of its share from the 7 days before to the
\* last 7 days
CnDeltas == [p \in CnProducts |-> FracSub(CnShareIn(p, 0, 6), CnShareIn(p, 7, 13))]

\* C20: losers (delta < 0) and gainers (delta > 0) are ranked separately by
\* magnitude descending; pair row i holds the i-th loser and the i-th gainer
\* with compensation_pct = min(gain, |loss|) / |loss| * 100; there are as
\* many pairs as the shorter ranking has entries.
C20_PairsByRank ==
    (cn_pc = "done" /\ CnUsable # {}) =>
        LET pairs == cn_out.pairs.rows
            n == Len(pairs)
            delta == CnDeltas
            losers == {p \in CnProducts : delta[p].num < 0}
            gainers == {p \in CnProducts : delta[p].num > 0}
        IN  /\ n = IF Cardinality(losers) < Cardinality(gainers)
                   THEN Cardinality(losers) ELSE Cardinality(gainers)
            /\ \A i \in 1..n :
                  /\ pairs[i].loser_product_id \in losers
                  /\ pairs[i].gainer_product_id \in gainers
                  /\ pairs[i].loser_delta_pp = delta[pairs[i].loser_product_id]
                  /\ pairs[i].gainer_delta_pp = delta[pairs[i].gainer_product_id]
                  \* |loss| * compensation = min(gain, |loss|) * 100
                  /\ FracMul(FracAbs(pairs[i].loser_delta_pp), pairs[i].compensation_pct)
                         = FracMul(FracMin(pairs[i].gainer_delta_pp,
                                           FracAbs(pairs[i].loser_delta_pp)),
                                   Frac(100, 1))
            /\ \A i \in 1..n, j \in 1..n :
                  i < j =>
                      /\ pairs[i].loser_product_id # pairs[j].loser_product_id
                      /\ pairs[i].gainer_product_id # pairs[j].gainer_product_id
                      /\ ~FracLt(pairs[j].loser_delta_pp, pairs[i].loser_delta_pp)
                      /\ ~FracLt(pairs[i].gainer_delta_pp, pairs[j].gainer_delta_pp)
            \* a loser or gainer without pair row ranks after those with one
            /\ \A i \in 1..n :
                  /\ \A p \in losers \ {pairs[k].loser_product_id : k \in 1..n} :
                        ~FracLt(delta[p], pairs[i].loser_delta_pp)
                  /\ \A p \in gainers \ {pairs[k].gainer_product_id : k \in 1..n} :
                        ~FracLt(pairs[i].gainer_delta_pp, delta[p])

\* C20 witness: two losers and two gainers; the larger loss is covered to
\* three quarters by the first gainer, the smaller loss fully by the second
C20_Witness ==
    /\ cn_pc = "done"
    /\ Len(cn_out.pairs.rows) = 2
    /\ FracLt(cn_out.pairs.rows[1].loser_delta_pp, cn_out.pairs.rows[2].loser_delta_pp)
    /\ cn_out.pairs.rows[1].compensation_pct = [num |-> 75, den |-> 1]
    /\ cn_out.pairs.rows[2].compensation_pct = [num |-> 100, den |-> 1]

(***************************************************************************)
(* Claims about the ratios of the metric builders                          *)
(***************************************************************************)
\* a float that is neither NaN nor infinite
Finite(x) == x.den > 0

FtAnchor == CHOOSE d \in {ft_in[i].date : i \in FtUsable} : \A i \in FtUsable : ft_in[i].date <= d

\* the days current_start..anchor are the last n days, the days
\* previous_start..previous_end are n days as well, and the two windows are
\* disjoint and together the last 2n days
AdjacentWindows(anchor, n, current_start, previous_start, previous_end) ==
    LET current == current_start..anchor
        previous == previous_start..previous_end
    IN  /\ current = (anchor - (n - 1))..anchor
        /\ Cardinality(current) = n
        /\ Cardinality(previous) = n
        /\ current \cap previous = {}
        /\ current \cup previous = (anchor - (2 * n - 1))..anchor

\* C14: in the builders that compare a trailing window with its predecessor
\* (share WoW and MoM, free-trial delta, cannibalization, retention), with the
\* anchor the maximum observed day and N the length, the current window is
\* [anchor-(N-1), anchor] and the previous window the N days immediately
\* before it: equal length, no common day, no day between them.
C14_WindowsAdjacentEqualLength ==
    /\ (sh_pc = "done" /\ \E i \in ShUsable : sh_in.filtered[i].duration_sec > 0) =>
          LET b == sh_out.borders
          IN  /\ b.end_date = ShAnchor
              /\ AdjacentWindows(ShAnchor, 7, b.wow_current_start,
                                 b.wow_prev_start, b.wow_prev_end)
              /\ AdjacentWindows(ShAnchor, 30, b.mom_current_start,
                                 b.mom_prev_start, b.mom_prev_end)
    /\ (ft_pc = "done" /\ FtUsable # {}) =>
          LET b == ft_out.borders
          IN  /\ b.end_date = FtAnchor
              /\ AdjacentWindows(FtAnchor, 7, b.current_start, b.prev_start, b.prev_end)
    /\ (cn_pc = "done" /\ CnUsable # {}) =>
          LET b == cn_out.borders
          IN  /\ b.end_date = CnAnchor
              /\ AdjacentWindows(CnAnchor, 7, b.current_start,
                                 b.previous_start, b.previous_end)
              /\ \A k \in 1..Len(cn_out.shift.rows) :
                    LET row == cn_out.shift.rows[k]
                    IN  /\ row.current_share_pct = CnShareIn(row.product_id, 0, 6)
                        /\ row.previous_share_pct = CnShareIn(row.product_id, 7, 13)
    /\ (ret_pc = "done" /\ RetBase # {}) =>
          \A k \in 1..Len(ret_rows) :
              LET n == ret_rows[k].window_days
              IN  /\ ret_rows[k].current_active_stations = Cardinality(StationsBack(0, n))
                  /\ ret_rows[k].previous_active_stations = Cardinality(StationsBack(n, n))

\* C14 witness: cannibalization with anchor day 60, hours on the first day of
\* the previous week (47) and on the first day of the current week (54)
C14_Witness ==
    /\ cn_pc = "done"
    /\ cn_out.borders = [end_date |-> 60, current_start |-> 54,
                         previous_end |-> 53, previous_start |-> 47]
    /\ \E i \in 1..Len(cn_in) : cn_in[i].date = 47
    /\ \E i \in 1..Len(cn_in) : cn_in[i].date = 54
    /\ \E k \in 1..Len(cn_out.shift.rows) :
          /\ cn_out.shift.rows[k].previous_share_pct.num > 0
          /\ cn_out.shift.rows[k].current_share_pct.num > 0

(***************************************************************************)
(* apply_sidebar_filters                                                   *)
(* Rows carry the columns the filter reads. A range that is None is        *)
(* written <<>>.                                                           *)
(***************************************************************************)
\* most rows of an explored interval table
MaxSfRows == 2

\* an interval that passes every filter of SfAllFilters
SfBaseRow ==
    [uuid |-> "A", product_id |-> "P1", city_name |-> "Moscow", processor |-> "i5",
     graphic_names |-> "rtx", free_trial |-> 0, product_number |-> 1, ram_bytes |-> 8,
     graphic_ram_bytes |-> 4, duration_sec |-> 3600]

\* the base row, rows that differ from it in one column, each closed or open
SfRowUniverse ==
    LET closed == {SfBaseRow,
                   [SfBaseRow EXCEPT !.uuid = "B"],
                   [SfBaseRow EXCEPT !.product_id = "P2"],
                   [SfBaseRow EXCEPT !.city_name = "Kazan"],
                   [SfBaseRow EXCEPT !.processor = "i7"],
                   [SfBaseRow EXCEPT !.graphic_names = "gtx"],
                   [SfBaseRow EXCEPT !.free_trial = 1],
                   [SfBaseRow EXCEPT !.product_number = 5],
                   [SfBaseRow EXCEPT !.ram_bytes = 16],
                   [SfBaseRow EXCEPT !.graphic_ram_bytes = 8]}
    IN  closed \cup {[r EXCEPT !.duration_sec = NaNSec] : r \in closed}

\* SidebarFilters with every filter off
SfNoFilters ==
    [enable_uuid |-> FALSE, enable_prod |-> FALSE, enable_city |-> FALSE,
     enable_processor |-> FALSE, enable_graphic |-> FALSE,
     selected_uuids |-> {}, selected_products |-> {}, selected_cities |-> {},
     selected_processors |-> {}, selected_graphics |-> {},
     free_trial_only |-> FALSE,
     product_number_range |-> <<>>, ram_range |-> <<>>, graphic_ram_range |-> <<>>]

\* SidebarFilters with every filter on
SfAllFilters ==
    [enable_uuid |-> TRUE, enable_prod |-> TRUE, enable_city |-> TRUE,
     enable_processor |-> TRUE, enable_graphic |-> TRUE,
     selected_uuids |-> {"A"}, selected_products |-> {"P1"}, selected_cities |-> {"Moscow"},
     selected_processors |-> {"i5"}, selected_graphics |-> {"rtx"},
     free_trial_only |-> FALSE,
     product_number_range |-> <<1, 2>>, ram_range |-> <<8, 8>>,
     graphic_ram_range |-> <<4, 4>>]

\* the explored settings: none, each filter alone, all of them
SfFilterUniverse ==
    {SfNoFilters, SfAllFilters,
     [SfNoFilters EXCEPT !.enable_uuid = TRUE, !.selected_uuids = {"A"}],
     [SfNoFilters EXCEPT !.enable_prod = TRUE, !.selected_products = {"P1"}],
     [SfNoFilters EXCEPT !.enable_city = TRUE, !.selected_cities = {"Moscow"}],
     [SfNoFilters EXCEPT !.enable_processor = TRUE, !.selected_processors = {"i5"}],
     [SfNoFilters EXCEPT !.enable_graphic = TRUE, !.selected_graphics = {"rtx"}],
     [SfNoFilters EXCEPT !.free_trial_only = TRUE],
     [SfNoFilters EXCEPT !.product_number_range = <<1, 2>>],
     [SfNoFilters EXCEPT !.ram_range = <<8, 8>>],
     [SfNoFilters EXCEPT !.graphic_ram_range = <<4, 4>>]}

\* series.between(lo, hi): both ends inclusive
Between(x, range) == range[1] <= x /\ x <= range[2]

\* the mask of lines 287-297 on one row
SidebarMask(r, filters) ==
    /\ r.duration_sec # NaNSec
    /\ filters.enable_uuid => r.uuid \in filters.selected_uuids
    /\ filters.enable_prod => r.product_id \in filters.selected_products
    /\ filters.enable_city => r.city_name \in filters.selected_cities
    /\ filters.enable_processor => r.processor \in filters.selected_processors
    /\ filters.enable_graphic => r.graphic_names \in filters.selected_graphics

\* apply_sidebar_filters: the mask, then free_trial_only and the three ranges
apply_sidebar_filters(intervals_with_duration, filters) ==
    LET masked == SelectSeq(intervals_with_duration, LAMBDA r : SidebarMask(r, filters))
        trial == IF filters.free_trial_only
                 THEN SelectSeq(masked, LAMBDA r : r.free_trial = 1)
                 ELSE masked
        numbered == IF filters.product_number_range # <<>>
                    THEN SelectSeq(trial, LAMBDA r :
                             Between(r.product_number, filters.product_number_range))
                    ELSE trial
        ram == IF filters.ram_range # <<>>
               THEN SelectSeq(numbered, LAMBDA r : Between(r.ram_bytes, filters.ram_range))
               ELSE numbered
    IN  IF filters.graphic_ram_range # <<>>
        THEN SelectSeq(ram, LAMBDA r :
                 Between(r.graphic_ram_bytes, filters.graphic_ram_range))
        ELSE ram

SfRest ==
    /\ sf_in = [intervals_with_duration |-> <<>>, filters |-> SfNoFilters]
    /\ sf_pc = "rest"
    /\ sf_out = <<>>

\* the call
SfInit ==
    /\ sf_in \in [intervals_with_duration : SeqsUpTo(SfRowUniverse, MaxSfRows),
                  filters : SfFilterUniverse]
    /\ sf_pc = "start"
    /\ sf_out = <<>>

\* lines 287-317
SfReturn ==
    /\ sf_pc = "start"
    /\ sf_out' = apply_sidebar_filters(sf_in.intervals_with_duration, sf_in.filters)
    /\ sf_pc' = "done"
    /\ UNCHANGED sf_in
    /\ UNCHANGED <<coreVars, rawVars, rw2Vars>>
    /\ UNCHANGED <<hmVars, conVars, volVars, utVars, shVars, adVars, ftVars, cnVars>>

(***************************************************************************)
(* Claims about intervals without duration                                 *)
(***************************************************************************)
\* the rows of a table that have a duration
WithDuration(t) == SelectSeq(t, LAMBDA r : r.duration_sec # NaNSec)

\* what build_utilization_metrics returns for its arguments
UtResult(filtered, station_scope, selected_start, selected_end) ==
    IF (selected_start = NaT \/ selected_end = NaT) /\ filtered = <<>>
    THEN [summary |-> UtZeroSummary, city |-> [columns |-> UtColumns, rows |-> <<>>]]
    ELSE LET days == UtDays(filtered, selected_start, selected_end)
         IN  [summary |-> UtSummary(filtered, station_scope, days),
              city |-> [columns |-> UtColumns,
                        rows |-> IF filtered = <<>> THEN <<>>
                                 ELSE UtCityTable(filtered, station_scope, days)]]

\* C21 (as stated): an interval without duration counts in no aggregate: the
\* sidebar filter returns no such row, the share builder computes from no
\* such row, and build_utilization_metrics returns what it returns for its
\* input without those rows.
C21_NullDurationNeverCounts ==
    /\ sf_pc = "done" =>
          \A i \in 1..Len(sf_out) : sf_out[i].duration_sec # NaNSec
    /\ sh_pc = "done" =>
          \A i \in 1..Len(ShBase) : ShBase[i].duration_sec # NaNSec
    /\ ut_pc = "done" =>
          ut_out = UtResult(WithDuration(ut_in.filtered), ut_in.station_scope,
                            ut_in.selected_start, ut_in.selected_end)

(***************************************************************************)
(* Claims about the range of the percentages                               *)
(***************************************************************************)
\* the float x is a number within [0, 100]
WithinPercent(x) ==
    /\ x.den > 0
    /\ x.num >= 0
    /\ x.num <= 100 * x.den

\* the float x is a number >= 0
NonNegative(x) == x.den > 0 /\ x.num >= 0

\* C22: retention_pct and idle_ratio_pct lie in [0, 100]; utilization_pct and
\* the CV percentages are >= 0 (utilization is not bounded by 100).
C22_PercentagesInRange ==
    /\ ret_pc = "done" =>
          \A k \in 1..Len(ret_rows) : WithinPercent(ret_rows[k].retention_pct)
    /\ idle_pc = "done" =>
          /\ WithinPercent(idle_summary.idle_ratio_pct)
          /\ \A k \in 1..Len(idle_city) : WithinPercent(idle_city[k].idle_ratio_pct)
    /\ ut_pc = "done" =>
          /\ NonNegative(ut_out.summary.utilization_pct)
          /\ \A k \in 1..Len(ut_out.city.rows) :
                NonNegative(ut_out.city.rows[k].utilization_pct)
    /\ vol_pc = "done" =>
          /\ NonNegative(vol_out.summary.network_mean_daily_hours)
          /\ NonNegative(vol_out.summary.network_cv_pct.square)
          /\ \A k \in 1..Len(vol_out.city_stats.rows) :
                /\ NonNegative(vol_out.city_stats.rows[k].mean_daily_hours)
                /\ NonNegative(vol_out.city_stats.rows[k].cv_pct.square)
          /\ \A k \in 1..Len(vol_out.station_stats.rows) :
                /\ NonNegative(vol_out.station_stats.rows[k].mean_daily_hours)
                /\ NonNegative(vol_out.station_stats.rows[k].cv_pct.square)

\* C22 witness: one station in scope, a range of one day and a session of 25
\* hours: the utilization is above 100
C22_Witness ==
    /\ ut_pc = "done"
    /\ ut_out.summary.station_count = 1
    /\ ut_out.summary.days = 1
    /\ ut_out.summary.capacity_hours = 24
    /\ FracLt([num |-> 100, den |-> 1], ut_out.summary.utilization_pct)

(***************************************************************************)
(* Specifications                                                          *)
(***************************************************************************)
\* nothing called yet
CoreRest == BusyRest /\ RwRest /\ RetRest /\ IdleRest
ExtRest == RawRest /\ SfRest /\ Rw2Rest
AggRestButRaw ==
    /\ HmRest /\ ConRest /\ VolRest /\ UtRest /\ ShRest /\ AdRest /\ FtRest /\ CnRest
    /\ SfRest /\ Rw2Rest
AggRest == AggRestButRaw /\ RawRest

InitIntervals == BusyRest /\ RwRest /\ RetRest /\ IdleRest /\ AggRest
NextIntervals == AppendRow \/ StartBuild \/ ProcessRow \/ EndGroup \/ FinishBuild
SpecIntervals == InitIntervals /\ [][NextIntervals]_vars

InitRolling == BusyRest /\ RwInit /\ RetRest /\ IdleRest /\ AggRest
NextRolling == RwReturnEmpty \/ RwReturnZeros \/ RwEnterLoop \/ RwStep \/ RwReturn \/ RwRaise
SpecRolling == InitRolling /\ [][NextRolling]_vars

InitRetention == BusyRest /\ RwRest /\ RetInit /\ IdleRest /\ AggRest
NextRetention == RetReturnEmpty \/ RetEnterLoop \/ RetWindow \/ RetReturn
SpecRetention == InitRetention /\ [][NextRetention]_vars

InitIdle == BusyRest /\ RwRest /\ RetRest /\ IdleInit /\ AggRest
NextIdle == IdleReturnEmpty \/ IdleReturn
SpecIdle == InitIdle /\ [][NextIdle]_vars

InitHeatmap == CoreRest /\ ExtRest /\ HmInit /\ ConRest /\ VolRest /\ UtRest /\ ShRest /\ AdRest /\ FtRest /\ CnRest
NextHeatmap == HmReturnEmpty \/ HmReturn
SpecHeatmap == InitHeatmap /\ [][NextHeatmap]_vars

InitConcentration == CoreRest /\ ExtRest /\ HmRest /\ ConInit /\ VolRest /\ UtRest /\ ShRest /\ AdRest /\ FtRest /\ CnRest
NextConcentration == ConReturnEmpty \/ ConReturn
SpecConcentration == InitConcentration /\ [][NextConcentration]_vars

InitVolatility == CoreRest /\ ExtRest /\ HmRest /\ ConRest /\ VolInit /\ UtRest /\ ShRest /\ AdRest /\ FtRest /\ CnRest
NextVolatility == VolReturnEmpty \/ VolReturn
SpecVolatility == InitVolatility /\ [][NextVolatility]_vars

InitUtilization == CoreRest /\ ExtRest /\ HmRest /\ ConRest /\ VolRest /\ UtInit /\ ShRest /\ AdRest /\ FtRest /\ CnRest
NextUtilization == UtReturnEmpty \/ UtReturnSummary \/ UtReturn
SpecUtilization == InitUtilization /\ [][NextUtilization]_vars

InitShare == CoreRest /\ ExtRest /\ HmRest /\ ConRest /\ VolRest /\ UtRest /\ ShInit /\ AdRest /\ FtRest /\ CnRest
NextShare == ShReturnEmpty \/ ShReturn
SpecShare == InitShare /\ [][NextShare]_vars

InitAdoption == CoreRest /\ ExtRest /\ HmRest /\ ConRest /\ VolRest /\ UtRest /\ ShRest /\ AdInit /\ FtRest /\ CnRest
NextAdoption == AdReturnEmpty \/ AdReturn
SpecAdoption == InitAdoption /\ [][NextAdoption]_vars

InitFreeTrial == CoreRest /\ ExtRest /\ HmRest /\ ConRest /\ VolRest /\ UtRest /\ ShRest /\ AdRest /\ FtInit /\ CnRest
NextFreeTrial == FtReturnEmpty \/ FtReturn
SpecFreeTrial == InitFreeTrial /\ [][NextFreeTrial]_vars

InitCannibalization == CoreRest /\ ExtRest /\ HmRest /\ ConRest /\ VolRest /\ UtRest /\ ShRest /\ AdRest /\ FtRest /\ CnInit
NextCannibalization == CnReturnEmpty \/ CnReturn
SpecCannibalization == InitCannibalization /\ [][NextCannibalization]_vars

\* the sidebar filter, or a builder on a table that still holds open intervals
InitNullDuration ==
    \/ CoreRest /\ RawRest /\ Rw2Rest /\ SfInit
          /\ HmRest /\ ConRest /\ VolRest /\ UtRest /\ ShRest /\ AdRest /\ FtRest /\ CnRest
    \/ CoreRest /\ ExtRest
          /\ HmRest /\ ConRest /\ VolRest /\ UtInitOpen /\ ShRest /\ AdRest /\ FtRest /\ CnRest
    \/ InitShare
NextNullDuration ==
    \/ SfReturn
    \/ UtReturnEmpty \/ UtReturnSummary \/ UtReturn
    \/ ShReturnEmpty \/ ShReturn
SpecNullDuration == InitNullDuration /\ [][NextNullDuration]_vars

\* two invocations of build_rolling_window_metrics, their steps in any order
InitPair ==
    /\ BusyRest /\ PairInit /\ RetRest /\ IdleRest
    /\ HmRest /\ ConRest /\ VolRest /\ UtRest /\ ShRest /\ AdRest /\ FtRest /\ CnRest
    /\ RawRest /\ SfRest
NextPair ==
    \/ RwReturnEmpty \/ RwReturnZeros \/ RwEnterLoop \/ RwStep \/ RwReturn \/ RwRaise
    \/ Rw2ReturnEmpty \/ Rw2ReturnZeros \/ Rw2EnterLoop \/ Rw2Step \/ Rw2Return \/ Rw2Raise
SpecPair == InitPair /\ [][NextPair]_vars

InitOrder == RawInit /\ RwRest /\ RetRest /\ IdleRest /\ AggRestButRaw
NextOrder == AppendRaw \/ CallCleanDf \/ StartBuild \/ ProcessRow \/ EndGroup \/ FinishBuild
SpecOrder == InitOrder /\ [][NextOrder]_vars

\* one of the builders that report a ratio is called
InitRatios == InitUtilization \/ InitIdle \/ InitFreeTrial \/ InitAdoption
NextRatios ==
    \/ UtReturnEmpty \/ UtReturnSummary \/ UtReturn
    \/ IdleReturnEmpty \/ IdleReturn
    \/ FtReturnEmpty \/ FtReturn
    \/ AdReturnEmpty \/ AdReturn
SpecRatios == InitRatios /\ [][NextRatios]_vars

\* one of the builders that report a bounded percentage is called
InitBounds == InitRetention \/ InitIdle \/ InitUtilization \/ InitVolatility
NextBounds ==
    \/ RetReturnEmpty \/ RetEnterLoop \/ RetWindow \/ RetReturn
    \/ IdleReturnEmpty \/ IdleReturn
    \/ UtReturnEmpty \/ UtReturnSummary \/ UtReturn
    \/ VolReturnEmpty \/ VolReturn
SpecBounds == InitBounds /\ [][NextBounds]_vars

\* one of the builders that compare two trailing windows is called
InitWindows == InitShare \/ InitFreeTrial \/ InitCannibalization \/ InitRetention
NextWindows ==
    \/ ShReturnEmpty \/ ShReturn
    \/ FtReturnEmpty \/ FtReturn
    \/ CnReturnEmpty \/ CnReturn
    \/ RetReturnEmpty \/ RetEnterLoop \/ RetWindow \/ RetReturn
SpecWindows == InitWindows /\ [][NextWindows]_vars
====
